---- MODULE Spec2Model ----
(***************************************************************************)
(* Specification Reconciliation Engine (src/src/utils/api.ts).             *)
(*                                                                         *)
(* A JavaScript string is modelled as a sequence of one-character strings, *)
(* so that every regular expression, split, includes and replace of the    *)
(* source is computed character by character.  Every exported or internal  *)
(* function of the engine is an operator; one action per function applies  *)
(* it to inputs drawn from finite pools and records the call.              *)
(***************************************************************************)
EXTENDS Integers, Sequences, FiniteSets, TLC

\* locals holds the local variables of a call that is under way (an async
\* function between two of its awaits)
VARIABLES pc, fn, input, output, locals

vars == <<pc, fn, input, output, locals>>

(***************************************************************************)
(* String primitives of the JavaScript runtime used by the source.         *)
(***************************************************************************)
UpperCase == <<"A","B","C","D","E","F","G","H","I","J","K","L","M","N","O","P","Q","R","S","T","U","V","W","X","Y","Z">>
LowerCase == <<"a","b","c","d","e","f","g","h","i","j","k","l","m","n","o","p","q","r","s","t","u","v","w","x","y","z">>
Digits == <<"0","1","2","3","4","5","6","7","8","9">>

IsDigit(c) == \E i \in 1..Len(Digits) : Digits[i] = c
IsLetter(c) == \E i \in 1..Len(LowerCase) : LowerCase[i] = c \/ UpperCase[i] = c
\* \w of a regular expression
IsWordChar(c) == IsLetter(c) \/ IsDigit(c) \/ c = "_"
\* \s of a regular expression (the characters the pools contain)
IsSpace(c) == c \in {" ", "\t", "\n", "\r"}

DigitVal(c) == CHOOSE d \in 0..9 : Digits[d + 1] = c

toLowerCase(s) ==
    [i \in 1..Len(s) |->
        IF \E k \in 1..Len(UpperCase) : UpperCase[k] = s[i]
        THEN LowerCase[CHOOSE k \in 1..Len(UpperCase) : UpperCase[k] = s[i]]
        ELSE s[i]]

trim(s) ==
    IF \A i \in 1..Len(s) : IsSpace(s[i]) THEN <<>>
    ELSE LET first == CHOOSE i \in 1..Len(s) :
                          ~IsSpace(s[i]) /\ \A j \in 1..(i - 1) : IsSpace(s[j])
             last == CHOOSE i \in 1..Len(s) :
                          ~IsSpace(s[i]) /\ \A j \in (i + 1)..Len(s) : IsSpace(s[j])
         IN SubSeq(s, first, last)

\* s.substring(from) with a 1-based index
from(s, i) == SubSeq(s, i, Len(s))

\* t occurs in s at the 1-based position i
occursAt(s, t, i) == i >= 1 /\ i + Len(t) - 1 <= Len(s) /\ SubSeq(s, i, i + Len(t) - 1) = t

includes(s, t) == \E i \in 1..(Len(s) - Len(t) + 1) : occursAt(s, t, i)

\* s.indexOf(t) as a 1-based position, 0 when absent
indexOf(s, t) ==
    IF includes(s, t)
    THEN CHOOSE i \in 1..(Len(s) - Len(t) + 1) :
             occursAt(s, t, i) /\ \A j \in 1..(i - 1) : ~occursAt(s, t, j)
    ELSE 0

\* s.lastIndexOf(t) as a 1-based position, 0 when absent
lastIndexOf(s, t) ==
    IF includes(s, t)
    THEN CHOOSE i \in 1..(Len(s) - Len(t) + 1) :
             occursAt(s, t, i) /\ \A j \in (i + 1)..(Len(s) - Len(t) + 1) : ~occursAt(s, t, j)
    ELSE 0

\* s.replace(/\s+/g, '')
removeSpaces(s) == SelectSeq(s, LAMBDA c : ~IsSpace(c))

\* the character classes the patterns of the source repeat
InClass(c, class) ==
    CASE class = "digit" -> IsDigit(c)
      [] class = "letter" -> IsLetter(c)
      [] class = "space" -> IsSpace(c)
      [] class = "nonspace" -> ~IsSpace(c)

\* the length of the longest prefix of s made of characters of the class
\* (a greedy class* of a regular expression)
spanLen(s, class) ==
    IF \A i \in 1..Len(s) : InClass(s[i], class) THEN Len(s)
    ELSE (CHOOSE i \in 1..Len(s) :
              ~InClass(s[i], class) /\ \A j \in 1..(i - 1) : InClass(s[j], class)) - 1

\* s.split(/\s+/).filter(w => w.length > 0)
RECURSIVE splitWords(_)
splitWords(s) ==
    IF s = <<>> THEN <<>>
    ELSE IF IsSpace(Head(s)) THEN splitWords(Tail(s))
    ELSE LET k == spanLen(s, "nonspace")
         IN <<SubSeq(s, 1, k)>> \o splitWords(from(s, k + 1))

\* s.split(sep) for a one-character separator: empty fields are kept
RECURSIVE split(_, _)
split(s, sep) ==
    LET \* the length of the longest prefix of s without the separator
        k == IF \A i \in 1..Len(s) : s[i] # sep THEN Len(s)
             ELSE (CHOOSE i \in 1..Len(s) : s[i] = sep /\ \A j \in 1..(i - 1) : s[j] # sep) - 1
    IN IF k = Len(s) THEN <<s>>
       ELSE <<SubSeq(s, 1, k)>> \o split(from(s, k + 2), sep)

\* parts.join(sep)
RECURSIVE join(_, _)
join(parts, sep) ==
    IF parts = <<>> THEN <<>>
    ELSE IF Len(parts) = 1 THEN parts[1]
    ELSE parts[1] \o sep \o join(Tail(parts), sep)

\* [...new Set(xs)]: the first occurrence of every element, in order
RECURSIVE unique(_)
unique(xs) ==
    IF xs = <<>> THEN <<>>
    ELSE LET init == unique(SubSeq(xs, 1, Len(xs) - 1))
             last == xs[Len(xs)]
         IN IF \E i \in 1..Len(init) : init[i] = last THEN init ELSE Append(init, last)

\* xs.includes(x) for an array
contains(xs, x) == \E i \in 1..Len(xs) : xs[i] = x

\* least element of a non-empty set of indices
least(S) == CHOOSE i \in S : \A j \in S : i <= j

(***************************************************************************)
(* 4.1 Normalizer                                                          *)
(***************************************************************************)
\* the synonym table, in the insertion order Object.entries iterates it
standardizations == <<
    <<<<"m","a","t","e","r","i","a","l">>, <<"m","a","t","e","r","i","a","l">>>>,
    <<<<"g","r","a","d","e">>, <<"g","r","a","d","e">>>>,
    <<<<"t","h","k">>, <<"t","h","i","c","k","n","e","s","s">>>>,
    <<<<"t","h","i","c","k","n","e","s","s">>, <<"t","h","i","c","k","n","e","s","s">>>>,
    <<<<"t","y","p","e">>, <<"t","y","p","e">>>>,
    <<<<"s","h","a","p","e">>, <<"s","h","a","p","e">>>>,
    <<<<"s","i","z","e">>, <<"s","i","z","e">>>>,
    <<<<"d","i","m","e","n","s","i","o","n">>, <<"s","i","z","e">>>>,
    <<<<"l","e","n","g","t","h">>, <<"l","e","n","g","t","h">>>>,
    <<<<"w","i","d","t","h">>, <<"w","i","d","t","h">>>>,
    <<<<"h","e","i","g","h","t">>, <<"h","e","i","g","h","t">>>>,
    <<<<"d","i","a">>, <<"d","i","a","m","e","t","e","r">>>>,
    <<<<"d","i","a","m","e","t","e","r">>, <<"d","i","a","m","e","t","e","r">>>>,
    <<<<"c","o","l","o","r">>, <<"c","o","l","o","r">>>>,
    <<<<"c","o","l","o","u","r">>, <<"c","o","l","o","r">>>>,
    <<<<"f","i","n","i","s","h">>, <<"f","i","n","i","s","h">>>>,
    <<<<"s","u","r","f","a","c","e">>, <<"f","i","n","i","s","h">>>>,
    <<<<"w","e","i","g","h","t">>, <<"w","e","i","g","h","t">>>>,
    <<<<"w","t">>, <<"w","e","i","g","h","t">>>>,
    <<<<"c","a","p","a","c","i","t","y">>, <<"c","a","p","a","c","i","t","y">>>>,
    <<<<"b","r","a","n","d">>, <<"b","r","a","n","d">>>>,
    <<<<"m","o","d","e","l">>, <<"m","o","d","e","l">>>>,
    <<<<"q","u","a","l","i","t","y">>, <<"q","u","a","l","i","t","y">>>>,
    <<<<"s","t","a","n","d","a","r","d">>, <<"s","t","a","n","d","a","r","d">>>>,
    <<<<"s","p","e","c","i","f","i","c","a","t","i","o","n">>, <<"s","p","e","c">>>>,
    <<<<"p","e","r","f","o","r","a","t","i","o","n">>, <<"h","o","l","e">>>>,
    <<<<"h","o","l","e">>, <<"h","o","l","e">>>>,
    <<<<"p","a","t","t","e","r","n">>, <<"p","a","t","t","e","r","n">>>>,
    <<<<"d","e","s","i","g","n">>, <<"d","e","s","i","g","n">>>>,
    <<<<"a","p","p","l","i","c","a","t","i","o","n">>, <<"a","p","p","l","i","c","a","t","i","o","n">>>>,
    <<<<"u","s","a","g","e">>, <<"a","p","p","l","i","c","a","t","i","o","n">>>> >>

fillerWords == <<<<"s","h","e","e","t">>, <<"p","l","a","t","e">>, <<"p","i","p","e">>, <<"r","o","d">>, <<"b","a","r">>, <<"i","n">>, <<"f","o","r">>, <<"o","f">>, <<"t","h","e">>>>

\* name.replace(/[()\-_,.;]/g, ' ')
replacePunctuation(s) ==
    [i \in 1..Len(s) |-> IF s[i] \in {"(", ")", "-", "_", ",", ".", ";"} THEN " " ELSE s[i]]

\* String(Object), which join makes of standardizations['constructor']: the
\* table is an object literal, and 'constructor' is the one member it
\* inherits from Object.prototype under a lower-case name without underscore
\* (the text is that of V8; other engines differ in its white space)
inheritedConstructor == <<"f","u","n","c","t","i","o","n"," ","O","b","j","e","c","t","(",")"," ","{"," ","[","n","a","t","i","v","e"," ","c","o","d","e","]"," ","}">>

\* the callback of words.map: the table member of that name, else the first
\* entry whose key contains the word or is contained in it, else the word
\* itself
standardizeWord(word) ==
    LET n == Len(standardizations)
        key(i) == standardizations[i][1]
        exact == {i \in 1..n : key(i) = word}
        loose == {i \in 1..n : includes(word, key(i)) \/ includes(key(i), word)}
    IN IF exact # {} THEN standardizations[least(exact)][2]
       ELSE IF word = <<"c","o","n","s","t","r","u","c","t","o","r">> THEN inheritedConstructor
       ELSE IF loose # {} THEN standardizations[least(loose)][2]
       ELSE word

\* words.map(word => ...) of normalizeSpecName
standardizeWords(words) == [i \in 1..Len(words) |-> standardizeWord(words[i])]

normalizeSpecName(name) ==
    trim(join(SelectSeq(unique(standardizeWords(splitWords(
                            replacePunctuation(trim(toLowerCase(name)))))),
                        LAMBDA w : ~contains(fillerWords, w)),
              <<" ">>))

(***************************************************************************)
(* 4.2 Similarity Matcher: specification names                            *)
(***************************************************************************)
\* the table as it was before "standard" was taken out of the grade group
synonymGroupsWithStandard == <<
    <<<<"m","a","t","e","r","i","a","l">>, <<"c","o","m","p","o","s","i","t","i","o","n">>, <<"f","a","b","r","i","c">>>>,
    <<<<"g","r","a","d","e">>, <<"q","u","a","l","i","t","y">>, <<"c","l","a","s","s">>, <<"s","t","a","n","d","a","r","d">>>>,
    <<<<"t","h","i","c","k","n","e","s","s">>, <<"t","h","k">>, <<"g","a","u","g","e">>>>,
    <<<<"s","i","z","e">>, <<"d","i","m","e","n","s","i","o","n">>, <<"m","e","a","s","u","r","e","m","e","n","t">>>>,
    <<<<"d","i","a","m","e","t","e","r">>, <<"d","i","a">>, <<"b","o","r","e">>>>,
    <<<<"l","e","n","g","t","h">>, <<"l","o","n","g">>, <<"l","n","g">>>>,
    <<<<"w","i","d","t","h">>, <<"b","r","e","a","d","t","h">>, <<"w","i","d","e">>>>,
    <<<<"h","e","i","g","h","t">>, <<"h","i","g","h">>, <<"d","e","p","t","h">>>>,
    <<<<"c","o","l","o","r">>, <<"c","o","l","o","u","r">>, <<"s","h","a","d","e">>>>,
    <<<<"f","i","n","i","s","h">>, <<"s","u","r","f","a","c","e">>, <<"c","o","a","t","i","n","g">>, <<"p","o","l","i","s","h">>>>,
    <<<<"w","e","i","g","h","t">>, <<"w","t">>, <<"m","a","s","s">>>>,
    <<<<"t","y","p","e">>, <<"k","i","n","d">>, <<"v","a","r","i","e","t","y">>, <<"s","t","y","l","e">>>>,
    <<<<"s","h","a","p","e">>, <<"f","o","r","m">>, <<"p","r","o","f","i","l","e">>>>,
    <<<<"h","o","l","e">>, <<"p","e","r","f","o","r","a","t","i","o","n">>, <<"a","p","e","r","t","u","r","e">>>>,
    <<<<"p","a","t","t","e","r","n">>, <<"d","e","s","i","g","n">>, <<"a","r","r","a","n","g","e","m","e","n","t">>>>,
    <<<<"a","p","p","l","i","c","a","t","i","o","n">>, <<"u","s","e">>, <<"p","u","r","p","o","s","e">>, <<"u","s","a","g","e">>>> >>

synonymGroups == <<
    <<<<"m","a","t","e","r","i","a","l">>, <<"c","o","m","p","o","s","i","t","i","o","n">>, <<"f","a","b","r","i","c">>>>,
    <<<<"g","r","a","d","e">>, <<"q","u","a","l","i","t","y">>, <<"c","l","a","s","s">>>>,
    <<<<"t","h","i","c","k","n","e","s","s">>, <<"t","h","k">>, <<"g","a","u","g","e">>>>,
    <<<<"s","i","z","e">>, <<"d","i","m","e","n","s","i","o","n">>, <<"m","e","a","s","u","r","e","m","e","n","t">>>>,
    <<<<"d","i","a","m","e","t","e","r">>, <<"d","i","a">>, <<"b","o","r","e">>>>,
    <<<<"l","e","n","g","t","h">>, <<"l","o","n","g">>, <<"l","n","g">>>>,
    <<<<"w","i","d","t","h">>, <<"b","r","e","a","d","t","h">>, <<"w","i","d","e">>>>,
    <<<<"h","e","i","g","h","t">>, <<"h","i","g","h">>, <<"d","e","p","t","h">>>>,
    <<<<"c","o","l","o","r">>, <<"c","o","l","o","u","r">>, <<"s","h","a","d","e">>>>,
    <<<<"f","i","n","i","s","h">>, <<"s","u","r","f","a","c","e">>, <<"c","o","a","t","i","n","g">>, <<"p","o","l","i","s","h">>>>,
    <<<<"w","e","i","g","h","t">>, <<"w","t">>, <<"m","a","s","s">>>>,
    <<<<"t","y","p","e">>, <<"k","i","n","d">>, <<"v","a","r","i","e","t","y">>, <<"s","t","y","l","e">>>>,
    <<<<"s","h","a","p","e">>, <<"f","o","r","m">>, <<"p","r","o","f","i","l","e">>>>,
    <<<<"h","o","l","e">>, <<"p","e","r","f","o","r","a","t","i","o","n">>, <<"a","p","e","r","t","u","r","e">>>>,
    <<<<"p","a","t","t","e","r","n">>, <<"d","e","s","i","g","n">>, <<"a","r","r","a","n","g","e","m","e","n","t">>>>,
    <<<<"a","p","p","l","i","c","a","t","i","o","n">>, <<"u","s","e">>, <<"p","u","r","p","o","s","e">>, <<"u","s","a","g","e">>>> >>

\* group.some(word => norm.includes(word))
groupHas(group, norm) == \E k \in 1..Len(group) : includes(norm, group[k])

\* the loop over the groups of a table: some group has a member inside each
\* of the two strings
inSameGroup(groups, clean1, clean2) ==
    \E g \in 1..Len(groups) : groupHas(groups[g], clean1) /\ groupHas(groups[g], clean2)

\* the comparisons of isSemanticallySimilar on the two normalized names
normalizedSimilar(norm1, norm2) ==
    \/ norm1 = norm2
    \/ includes(norm1, norm2)
    \/ includes(norm2, norm1)
    \/ inSameGroup(synonymGroups, norm1, norm2)

isSemanticallySimilar(spec1, spec2) ==
    normalizedSimilar(normalizeSpecName(spec1), normalizeSpecName(spec2))

(***************************************************************************)
(* Numbers.  parseFloat of a decimal literal is kept exactly, as an        *)
(* integer count of 1/Scale; literals carry at most four fraction digits.  *)
(***************************************************************************)
Scale == 10000

\* the fraction digits ds (after the point) as a count of 1/Scale
fractionValue(ds) ==
    LET d(k) == IF k <= Len(ds) THEN DigitVal(ds[k]) ELSE 0
    IN d(1) * 1000 + d(2) * 100 + d(3) * 10 + d(4)

RECURSIVE digitsValue(_)
digitsValue(ds) ==
    IF ds = <<>> THEN 0 ELSE 10 * digitsValue(SubSeq(ds, 1, Len(ds) - 1)) + DigitVal(ds[Len(ds)])

\* \d+(\.\d+)? anchored at position p of s, greedy: the number of characters
\* it takes (0 when s[p] is no digit) and parseFloat of them
numberAt(s, p) ==
    LET int == spanLen(from(s, p), "digit")
        hasFraction == /\ int > 0
                       /\ p + int + 1 <= Len(s)
                       /\ s[p + int] = "."
                       /\ IsDigit(s[p + int + 1])
        frac == IF hasFraction THEN spanLen(from(s, p + int + 1), "digit") ELSE 0
    IN [len |-> IF hasFraction THEN int + 1 + frac ELSE int,
        value |-> digitsValue(SubSeq(s, p, p + int - 1)) * Scale
                  + fractionValue(SubSeq(s, p + int + 1, p + int + frac))]

\* (u1|u2|...)? anchored at position p of s: the first alternative, in the
\* order of the pattern, that occurs there (case-insensitive), else ''
unitAt(s, p, alternatives) ==
    LET low == toLowerCase(s)
        hits == {k \in 1..Len(alternatives) : occursAt(low, alternatives[k], p)}
    IN IF hits = {} THEN <<>>
       ELSE alternatives[CHOOSE k \in hits : \A j \in hits : k <= j]

\* \s*(u1|u2|...)? read from position q of s
unitAfterSpace(s, q, alternatives) ==
    unitAt(s, q + spanLen(from(s, q), "space"), alternatives)

\* the position of the first digit of s, Len(s) + 1 when it has none: where
\* the leftmost match of a pattern that begins with \d+ starts
firstDigit(s) ==
    IF \E i \in 1..Len(s) : IsDigit(s[i])
    THEN CHOOSE i \in 1..Len(s) : IsDigit(s[i]) /\ \A j \in 1..(i - 1) : ~IsDigit(s[j])
    ELSE Len(s) + 1

(***************************************************************************)
(* 4.2 Similarity Matcher: option values                                   *)
(***************************************************************************)
materialGroups == <<
    <<<<"3","0","4">>, <<"s","s","3","0","4">>, <<"s","s"," ","3","0","4">>, <<"s","t","a","i","n","l","e","s","s"," ","s","t","e","e","l"," ","3","0","4">>>>,
    <<<<"3","0","4","l">>, <<"s","s","3","0","4","l">>, <<"s","s"," ","3","0","4","l">>, <<"s","t","a","i","n","l","e","s","s"," ","s","t","e","e","l"," ","3","0","4","l">>>>,
    <<<<"3","1","6">>, <<"s","s","3","1","6">>, <<"s","s"," ","3","1","6">>, <<"s","t","a","i","n","l","e","s","s"," ","s","t","e","e","l"," ","3","1","6">>>>,
    <<<<"3","1","6","l">>, <<"s","s","3","1","6","l">>, <<"s","s"," ","3","1","6","l">>, <<"s","t","a","i","n","l","e","s","s"," ","s","t","e","e","l"," ","3","1","6","l">>>>,
    <<<<"4","3","0">>, <<"s","s","4","3","0">>, <<"s","s"," ","4","3","0">>>>,
    <<<<"2","0","1">>, <<"s","s","2","0","1">>, <<"s","s"," ","2","0","1">>>>,
    <<<<"2","0","2">>, <<"s","s","2","0","2">>, <<"s","s"," ","2","0","2">>>>,
    <<<<"m","s">>, <<"m","i","l","d"," ","s","t","e","e","l">>, <<"c","a","r","b","o","n"," ","s","t","e","e","l">>>>,
    <<<<"g","i">>, <<"g","a","l","v","a","n","i","z","e","d"," ","i","r","o","n">>>>,
    <<<<"a","l","u","m","i","n","i","u","m">>, <<"a","l","u","m","i","n","u","m">>>> >>

shapeGroups == <<
    <<<<"r","o","u","n","d">>, <<"c","i","r","c","u","l","a","r">>, <<"c","i","r","c","l","e">>>>,
    <<<<"s","q","u","a","r","e">>, <<"s","q","u","a","r","e","d">>>>,
    <<<<"r","e","c","t","a","n","g","u","l","a","r">>, <<"r","e","c","t","a","n","g","l","e">>>>,
    <<<<"h","e","x","a","g","o","n","a","l">>, <<"h","e","x","a","g","o","n">>>>,
    <<<<"f","l","a","t">>, <<"f","l","a","t"," ","b","a","r">>>>,
    <<<<"a","n","g","l","e">>, <<"l"," ","s","h","a","p","e">>, <<"l","-","s","h","a","p","e","d">>>>,
    <<<<"c","h","a","n","n","e","l">>, <<"c"," ","s","h","a","p","e">>, <<"c","-","s","h","a","p","e","d">>>>,
    <<<<"p","i","p","e">>, <<"t","u","b","e">>, <<"t","u","b","u","l","a","r">>>>,
    <<<<"s","l","o","t","t","e","d">>, <<"s","l","o","t">>>> >>

\* str.match(/\b(\d+[a-z]*)\b/i): the first maximal run of word characters
\* that is digits followed by letters only; match[1].toLowerCase()
extractGrade(str) ==
    LET n == Len(str)
        runEnd(i) == LET d == spanLen(from(str, i), "digit")
                     IN i + d + spanLen(from(str, i + d), "letter") - 1
        matchesAt(i) == /\ IsDigit(str[i])
                        /\ (i = 1 \/ ~IsWordChar(str[i - 1]))
                        /\ (runEnd(i) = n \/ ~IsWordChar(str[runEnd(i) + 1]))
        starts == {i \in 1..n : matchesAt(i)}
    IN IF starts = {} THEN [matched |-> FALSE]
       ELSE LET i == CHOOSE k \in starts : \A j \in starts : k <= j
            IN [matched |-> TRUE, grade |-> toLowerCase(SubSeq(str, i, runEnd(i)))]

measurementUnits == <<<<"m","m">>, <<"c","m">>, <<"m">>, <<"i","n","c","h">>, <<"i","n">>, <<"f","t">>, <<"\"">>, <<"'">>>>

\* the conversion of a measurement to millimetres, as a count of 1/Scale
toMillimetres(value, unit) ==
    IF unit = <<"c","m">> \/ unit = <<"c","e","n","t","i","m","e","t","e","r">> THEN value * 10
    ELSE IF unit = <<"m">> \/ unit = <<"m","e","t","e","r">> THEN value * 1000
    ELSE IF unit = <<"i","n","c","h">> \/ unit = <<"i","n">> \/ unit = <<"\"">> THEN (value * 254) \div 10
    ELSE IF unit = <<"f","t">> \/ unit = <<"f","e","e","t">> \/ unit = <<"'">> THEN (value * 3048) \div 10
    ELSE value

\* the match of getMeasurement, whose number num was looked for at position
\* p, and its conversion to millimetres; matched is FALSE for null
measurementFrom(str, p, num) ==
    IF num.len = 0 THEN [matched |-> FALSE]
    ELSE [matched |-> TRUE,
          mm |-> toMillimetres(num.value,
                               unitAfterSpace(str, p + num.len, measurementUnits))]

\* str.match(/(\d+(\.\d+)?)\s*(mm|cm|m|inch|in|ft|"|')?/i)
getMeasurement(str) == measurementFrom(str, firstDigit(str), numberAt(str, firstDigit(str)))

\* 0.01 mm as a count of 1/Scale
Epsilon == Scale \div 100

abs(x) == IF x < 0 THEN -x ELSE x

\* meas1 && meas2 && Math.abs(meas1 - meas2) < 0.01: null and 0 are falsy
measurementsClose(meas1, meas2) ==
    /\ meas1.matched /\ meas1.mm # 0
    /\ meas2.matched /\ meas2.mm # 0
    /\ abs(meas1.mm - meas2.mm) < Epsilon

\* the group check without the comparison of the grades
gradesAgreeIgnoringSuffix(grade1, grade2) == TRUE

\* the outcome once both values are in the same material group:
\* !(grade1 && grade2 && grade1 !== grade2)
gradesAgree(grade1, grade2) ==
    ~(grade1.matched /\ grade2.matched /\ grade1.grade # grade2.grade)

\* the comparisons of areOptionsStronglySimilar on the two cleaned values
cleanOptionsSimilar(clean1, clean2) ==
    IF clean1 = clean2 THEN TRUE
    ELSE IF removeSpaces(clean1) = removeSpaces(clean2) THEN TRUE
    ELSE IF inSameGroup(materialGroups, clean1, clean2)
         THEN gradesAgree(extractGrade(clean1), extractGrade(clean2))
    ELSE IF measurementsClose(getMeasurement(clean1), getMeasurement(clean2)) THEN TRUE
    ELSE inSameGroup(shapeGroups, clean1, clean2)

areOptionsStronglySimilar(opt1, opt2) ==
    IF opt1 = <<>> \/ opt2 = <<>> THEN FALSE
    ELSE cleanOptionsSimilar(trim(toLowerCase(opt1)), trim(toLowerCase(opt2)))

isSemanticallySimilarOption(opt1, opt2) == areOptionsStronglySimilar(opt1, opt2)

(***************************************************************************)
(* 4.6 Option intersection with range awareness                            *)
(***************************************************************************)
rangeUnits == <<<<"m","m">>, <<"c","m">>, <<"m">>, <<"i","n","c","h">>, <<"i","n">>>>

skipSpace(s, q) == q + spanLen(from(s, q), "space")

\* the range pattern anchored at position p of opt2, where num1 was read
rangeFrom(opt2, p, num1) ==
    LET \* where '-' has to be, and where the second number has to start
        dash == skipSpace(opt2, p + num1.len)
        second == skipSpace(opt2, dash + 1)
    IN IF /\ dash <= Len(opt2) /\ opt2[dash] = "-"
          /\ second <= Len(opt2) /\ IsDigit(opt2[second])
       THEN [matched |-> TRUE, min |-> num1.value, max |-> numberAt(opt2, second).value,
             unit |-> unitAfterSpace(opt2, second + numberAt(opt2, second).len, rangeUnits)]
       ELSE [matched |-> FALSE]

\* the leftmost of the positions where the pattern matches
leftmostRange(opt2, starts) ==
    IF starts = {} THEN [matched |-> FALSE]
    ELSE rangeFrom(opt2, least(starts), numberAt(opt2, least(starts)))

\* opt2.match(/(\d+(?:\.\d+)?)\s*-\s*(\d+(?:\.\d+)?)\s*(mm|cm|m|inch|in)?/i):
\* the leftmost position from which number, '-', number can be read
rangeMatch(opt2) ==
    leftmostRange(opt2, {p \in 1..Len(opt2) :
        IsDigit(opt2[p]) /\ rangeFrom(opt2, p, numberAt(opt2, p)).matched})

\* the match of valueMatch, whose number num was looked for at position p
valueFrom(opt1, p, num) ==
    IF num.len = 0 THEN [matched |-> FALSE]
    ELSE [matched |-> TRUE,
          value |-> num.value,
          valueUnit |-> unitAfterSpace(opt1, p + num.len, rangeUnits)]

\* opt1.match(/(\d+(?:\.\d+)?)\s*(mm|cm|m|inch|in)?/i)
valueMatch(opt1) == valueFrom(opt1, firstDigit(opt1), numberAt(opt1, firstDigit(opt1)))

\* the first pair of loops: step k visits options1[k \div n2 + 1] and
\* options2[k % n2 + 1]; st is [common, usedIndices]
RECURSIVE directMatches(_, _, _, _)
directMatches(options1, options2, k, st) ==
    LET opt1 == options1[(k \div Len(options2)) + 1]
        j == (k % Len(options2)) + 1
    IN IF k >= Len(options1) * Len(options2) THEN st
       ELSE directMatches(options1, options2, k + 1,
                IF j \notin st.usedIndices /\ areOptionsStronglySimilar(opt1, options2[j])
                THEN [common |-> Append(st.common, opt1),
                      usedIndices |-> st.usedIndices \cup {j}]
                ELSE st)

\* the test of the inner loop of the second pass on opt1, whose match is vm
fallsWithin(range, common, opt1, vm) ==
    /\ vm.matched
    /\ ~contains(common, opt1)
    /\ (range.unit = <<>> \/ vm.valueUnit = <<>> \/ range.unit = vm.valueUnit)
    /\ vm.value >= range.min /\ vm.value <= range.max

\* the inner loop of the second pass: the Stage 1 values inside the range
RECURSIVE rangeMembers(_, _, _, _)
rangeMembers(options1, range, i, common) ==
    IF i > Len(options1) THEN common
    ELSE rangeMembers(options1, range, i + 1,
             IF fallsWithin(range, common, options1[i], valueMatch(options1[i]))
             THEN Append(common, options1[i]) ELSE common)

\* the body of the second pass for options2[j], whose match is range
rangeStep(options1, st, j, range) ==
    IF range.matched
    THEN [common |-> rangeMembers(options1, range, 1, st.common),
          usedIndices |-> st.usedIndices \cup {j}]
    ELSE st

\* the second pass over options2
RECURSIVE rangeMatches(_, _, _, _)
rangeMatches(options1, options2, j, st) ==
    IF j > Len(options2) THEN st
    ELSE rangeMatches(options1, options2, j + 1,
             IF j \in st.usedIndices THEN st
             ELSE rangeStep(options1, st, j, rangeMatch(options2[j])))

findCommonOptions(options1, options2) ==
    rangeMatches(options1, options2, 1,
        directMatches(options1, options2, 0, [common |-> <<>>, usedIndices |-> {}])).common

(***************************************************************************)
(* JavaScript values, as JSON.parse and the model response produce them.   *)
(* An object is the sequence of its <<key, value>> entries.                *)
(***************************************************************************)
Undefined == [t |-> "undefined"]
Null == [t |-> "null"]
Str(s) == [t |-> "string", v |-> s]
Num(n) == [t |-> "number", v |-> n]
Bool(b) == [t |-> "boolean", v |-> b]
Arr(xs) == [t |-> "array", v |-> xs]
Obj(entries) == [t |-> "object", v |-> entries]

\* value.key of an object or array; undefined when the property is absent
\* (a property of null or undefined is a TypeError: see the callers)
get(value, key) ==
    IF value.t = "object" /\ \E i \in 1..Len(value.v) : value.v[i][1] = key
    THEN value.v[CHOOSE i \in 1..Len(value.v) : value.v[i][1] = key][2]
    ELSE Undefined

IsNullish(value) == value.t \in {"undefined", "null"}

\* JavaScript truthiness
Truthy(value) ==
    CASE value.t \in {"undefined", "null"} -> FALSE
      [] value.t = "string" -> value.v # <<>>
      [] value.t = "number" -> value.v # 0
      [] value.t = "boolean" -> value.v
      [] OTHER -> TRUE

\* !response?.candidates?.length
hasNoCandidates(response) ==
    LET empty(candidates) == candidates.t \notin {"array", "string"} \/ candidates.v = <<>>
    IN IsNullish(response) \/ empty(get(response, <<"c","a","n","d","i","d","a","t","e","s">>))

\* response.candidates[0]?.content?.parts || [] once the candidates are there
firstCandidateParts(response) ==
    LET orEmpty(parts) == IF Truthy(parts) THEN parts ELSE Arr(<<>>)
        partsOf(content) == IF IsNullish(content) THEN Undefined ELSE get(content, <<"p","a","r","t","s">>)
        contentOf(first) == IF IsNullish(first) THEN Undefined ELSE get(first, <<"c","o","n","t","e","n","t">>)
        firstOf(candidates) == IF candidates.t = "array" THEN candidates.v[1]
                               ELSE Str(<<candidates.v[1]>>)
    IN orEmpty(partsOf(contentOf(firstOf(get(response, <<"c","a","n","d","i","d","a","t","e","s">>)))))

\* the for-of loop of extractRawText over parts[i..]; threw when a part is
\* null or undefined (part.text is then a TypeError)
RECURSIVE collectText(_, _, _)
collectText(parts, i, text) ==
    LET with(t) == IF t.t = "string" THEN text \o t.v \o <<"\n">> ELSE text
    IN IF i > Len(parts) THEN [threw |-> FALSE, text |-> text]
       ELSE IF IsNullish(parts[i]) THEN [threw |-> TRUE, text |-> text]
       ELSE collectText(parts, i + 1, with(get(parts[i], <<"t","e","x","t">>)))

\* for (const part of parts): an array is iterated, a string by characters
\* (which carry no text), anything else is not iterable (a TypeError)
extractRawText(response) ==
    LET textOf(got) == IF got.threw THEN <<>> ELSE trim(got.text)
        over(parts) == IF parts.t # "array" THEN <<>>
                       ELSE textOf(collectText(parts.v, 1, <<>>))
    IN IF hasNoCandidates(response) THEN <<>>
       ELSE over(firstCandidateParts(response))

(***************************************************************************)
(* 4.5 Cross-Source Matcher                                                *)
(***************************************************************************)
\* the concatenation of a sequence of sequences
RECURSIVE flatten(_)
flatten(xss) == IF xss = <<>> THEN <<>> ELSE Head(xss) \o flatten(Tail(xss))

extractAllSpecsWithOptions(specs) ==
    flatten([s \in 1..Len(specs.seller_specs) |->
        flatten([c \in 1..Len(specs.seller_specs[s].mcats) |->
            LET finalized == specs.seller_specs[s].mcats[c].finalized_specs
                pick(tier) == [k \in 1..Len(tier.specs) |->
                                  [spec_name |-> tier.specs[k].spec_name,
                                   options |-> tier.specs[k].options]]
            IN pick(finalized.finalized_primary_specs)
               \o pick(finalized.finalized_secondary_specs)
               \o pick(finalized.finalized_tertiary_specs)])])

\* options.filter(opt => !others.some(o => isSemanticallySimilarOption(opt, o)))
uniqueOptions(options, others) ==
    SelectSeq(options, LAMBDA opt :
        ~\E k \in 1..Len(others) : isSemanticallySimilarOption(opt, others[k]))

\* the body of the inner forEach of compareResults for geminiAllSpecs[j]
compareSpecs(chatgptSpec, geminiSpec, j, st) ==
    IF j \in st.matchedGemini THEN st
    ELSE IF isSemanticallySimilar(chatgptSpec.spec_name, geminiSpec.spec_name)
    THEN [commonSpecs |-> Append(st.commonSpecs,
              [spec_name |-> chatgptSpec.spec_name,
               chatgpt_name |-> chatgptSpec.spec_name,
               gemini_name |-> geminiSpec.spec_name,
               common_options |-> findCommonOptions(chatgptSpec.options, geminiSpec.options),
               chatgpt_unique_options |->
                   uniqueOptions(chatgptSpec.options, geminiSpec.options),
               gemini_unique_options |->
                   uniqueOptions(geminiSpec.options, chatgptSpec.options)]),
          matchedGemini |-> st.matchedGemini \cup {j},
          foundMatch |-> TRUE]
    ELSE st

\* the inner forEach of compareResults over geminiAllSpecs[j..]:
\* st is [commonSpecs, matchedGemini, foundMatch]
RECURSIVE compareWithGemini(_, _, _, _)
compareWithGemini(chatgptSpec, geminiAllSpecs, j, st) ==
    IF j > Len(geminiAllSpecs) THEN st
    ELSE compareWithGemini(chatgptSpec, geminiAllSpecs, j + 1,
             compareSpecs(chatgptSpec, geminiAllSpecs[j], j, st))

\* the end of the body of the outer forEach that takes the record for unique
\* whatever the inner loop found
afterGeminiAlways(acc, chatgptSpec, st) ==
    [commonSpecs |-> st.commonSpecs,
     chatgptUnique |-> Append(acc.chatgptUnique, chatgptSpec),
     matchedGemini |-> st.matchedGemini]

\* the end of the body of the outer forEach: the record is unique to ChatGPT
\* when the inner loop, which ended in st, found no match
afterGemini(acc, chatgptSpec, st) ==
    [commonSpecs |-> st.commonSpecs,
     chatgptUnique |-> IF st.foundMatch THEN acc.chatgptUnique
                       ELSE Append(acc.chatgptUnique, chatgptSpec),
     matchedGemini |-> st.matchedGemini]

\* the outer forEach over chatgptAllSpecs[i..], then the forEach that collects
\* the unmatched Gemini records; acc is [commonSpecs, chatgptUnique, matchedGemini]
RECURSIVE compareFrom(_, _, _, _)
compareFrom(chatgptAllSpecs, geminiAllSpecs, i, acc) ==
    IF i > Len(chatgptAllSpecs)
    THEN [common_specs |-> acc.commonSpecs,
          chatgpt_unique_specs |-> acc.chatgptUnique,
          gemini_unique_specs |->
              LET unmatched == SelectSeq([j \in 1..Len(geminiAllSpecs) |-> j],
                                         LAMBDA j : j \notin acc.matchedGemini)
              IN [k \in 1..Len(unmatched) |-> geminiAllSpecs[unmatched[k]]]]
    ELSE compareFrom(chatgptAllSpecs, geminiAllSpecs, i + 1,
             afterGemini(acc, chatgptAllSpecs[i],
                 compareWithGemini(chatgptAllSpecs[i], geminiAllSpecs, 1,
                     [commonSpecs |-> acc.commonSpecs,
                      matchedGemini |-> acc.matchedGemini,
                      foundMatch |-> FALSE])))

compareResults(chatgptSpecs, geminiSpecs) ==
    compareFrom(extractAllSpecsWithOptions(chatgptSpecs),
                extractAllSpecsWithOptions(geminiSpecs), 1,
                [commonSpecs |-> <<>>, chatgptUnique |-> <<>>, matchedGemini |-> {}])

(***************************************************************************)
(* 4.7 Common-Spec Table Parser and the Stage 3 matching                   *)
(***************************************************************************)
NoCommonOptions == <<"N","o"," ","c","o","m","m","o","n"," ","o","p","t","i","o","n","s"," ","a","v","a","i","l","a","b","l","e">>

\* the index of the first record among hits, 0 if there is none
firstFound(hits) == IF hits = {} THEN 0 ELSE least(hits)

\* the find that takes the first record whatever the name
findStage1MatchAny(stage1Specs, specName) ==
    IF stage1Specs = <<>> THEN 0 ELSE 1

\* stage1Specs.find(s => s.spec_name === specName || isSemanticallySimilar(...)):
\* the index of the record found, 0 if none
findStage1Match(stage1Specs, specName) ==
    firstFound({i \in 1..Len(stage1Specs) :
                   \/ stage1Specs[i].spec_name = specName
                   \/ isSemanticallySimilar(stage1Specs[i].spec_name, specName)})

\* stage2All.find(stage2Spec => isSemanticallySimilar(spec_name, stage2Spec.name)):
\* the index of the record found, 0 if none
findStage2Match(stage2All, spec_name) ==
    firstFound({j \in 1..Len(stage2All) : isSemanticallySimilar(spec_name, stage2All[j].name)})

\* xs.map(x => x.trim())
trimAll(xs) == [i \in 1..Len(xs) |-> trim(xs[i])]

parseOptionsSimple(optionsStr) ==
    IF trim(optionsStr) = <<>> THEN <<>>
    ELSE SelectSeq(trimAll(split(optionsStr, ",")), LAMBDA opt :
             opt # <<>> /\ ~includes(toLowerCase(opt), <<"n","o"," ","c","o","m","m","o","n"," ","o","p","t","i","o","n","s">>))

isHeaderLine(line) ==
    \/ includes(toLowerCase(line), <<"s","p","e","c","i","f","i","c","a","t","i","o","n">>)
    \/ includes(toLowerCase(line), <<"s","t","a","g","e"," ","1"," ","c","a","t","e","g","o","r","y">>)
    \/ includes(line, <<"-","-","-">>)
    \/ includes(line, <<"=","=","=">>)
    \/ includes(line, <<"-","-","-","-">>)

\* the columns of a line whose name matched the record stage1Match
parseMatchedLine(parts, stage1Match) ==
    LET isCategory == toLowerCase(parts[2]) \in {<<"p","r","i","m","a","r","y">>, <<"s","e","c","o","n","d","a","r","y">>, <<"t","e","r","t","i","a","r","y">>}
        default == IF stage1Match.tier # <<>> THEN stage1Match.tier ELSE <<"P","r","i","m","a","r","y">>
        category == IF Len(parts) = 2
                    THEN (IF isCategory THEN parts[2] ELSE default)
                    ELSE parts[2]
        optionsStr == IF Len(parts) = 2
                      THEN (IF isCategory THEN <<>> ELSE parts[2])
                      ELSE parts[3]
        optionsList == parseOptionsSimple(optionsStr)
    IN << [spec_name |-> stage1Match.spec_name,
           options |-> IF optionsList # <<>> THEN optionsList ELSE <<NoCommonOptions>>,
           category |-> category] >>

\* the body of the for loop for one line: the entries it adds to result
\* (none for a header line, for fewer than two parts, or when no Stage 1
\* record goes with the name)
parseCommonSpecLine(line, stage1Specs) ==
    LET parts == trimAll(split(line, "|"))
    IN IF isHeaderLine(line) \/ Len(parts) < 2 THEN <<>>
       ELSE IF findStage1Match(stage1Specs, parts[1]) = 0 THEN <<>>
       ELSE parseMatchedLine(parts, stage1Specs[findStage1Match(stage1Specs, parts[1])])

\* the for loop of parseCommonSpecsFromText over the non-blank lines
parseLines(lines, stage1Specs) ==
    flatten([i \in 1..Len(lines) |-> parseCommonSpecLine(lines[i], stage1Specs)])

parseCommonSpecsFromText(text, stage1Specs) ==
    parseLines(SelectSeq(split(text, "\n"), LAMBDA line : trim(line) # <<>>), stage1Specs)

\* the Stage 2 bundle flattened: config, then keys, then buyers
flattenStage2(stage2ISQs) ==
    LET usable(isqs) == SelectSeq(isqs, LAMBDA q : q.name # <<>> /\ q.options # <<>>)
    IN (IF stage2ISQs.config.name # <<>> /\ stage2ISQs.config.options # <<>>
        THEN <<stage2ISQs.config>> ELSE <<>>)
       \o usable(stage2ISQs.keys) \o usable(stage2ISQs.buyers)

\* commonSpecs.push({...}) of findCommonSpecsLocally
localEntry(stage1Spec, commonOptions) ==
    << [spec_name |-> stage1Spec.spec_name,
        options |-> IF commonOptions # <<>> THEN commonOptions ELSE <<NoCommonOptions>>,
        category |-> IF stage1Spec.tier = <<"P","r","i","m","a","r","y">> THEN <<"P","r","i","m","a","r","y">> ELSE <<"S","e","c","o","n","d","a","r","y">>] >>

\* the body of the forEach for one Stage 1 record: matchingStage2 is the
\* record find returns, and nothing is added when it returns none
localCommonSpec(stage1Spec, stage2All) ==
    IF findStage2Match(stage2All, stage1Spec.spec_name) = 0 THEN <<>>
    ELSE localEntry(stage1Spec,
             findCommonOptions(stage1Spec.options,
                 stage2All[findStage2Match(stage2All, stage1Spec.spec_name)].options))

\* the forEach of findCommonSpecsLocally over stage1Specs
localCommonSpecs(stage1Specs, stage2All) ==
    flatten([i \in 1..Len(stage1Specs) |-> localCommonSpec(stage1Specs[i], stage2All)])

findCommonSpecsLocally(stage1Specs, stage2ISQs) ==
    localCommonSpecs(stage1Specs, flattenStage2(stage2ISQs))

deduplicateCommonSpecs(specs) ==
    [i \in 1..Len(specs) |->
        [spec_name |-> specs[i].spec_name,
         options |-> unique(SelectSeq(trimAll(specs[i].options), LAMBDA o : o # <<>>)),
         category |-> specs[i].category]]

\* reply is what the model call came to: "nokey" (STAGE3_API_KEY is empty, no
\* call is made), "error" (fetchWithRetry or response.json() threw) or "ok"
\* with the response body in reply.data
findCommonSpecsWithGeminiAPI(stage1Specs, stage2ISQs, reply) ==
    IF reply.kind # "ok" THEN <<>>
    ELSE parseCommonSpecsFromText(extractRawText(reply.data), stage1Specs)

\* the model's table when it has entries, else the local matching
geminiOrLocal(geminiResult, stage1Specs, stage2ISQs) ==
    IF geminiResult # <<>> THEN geminiResult
    ELSE findCommonSpecsLocally(stage1Specs, stage2ISQs)

findCommonSpecsWithGemini(stage1Specs, stage2ISQs, reply) ==
    [commonSpecs |->
        deduplicateCommonSpecs(
            geminiOrLocal(findCommonSpecsWithGeminiAPI(stage1Specs, stage2ISQs, reply),
                          stage1Specs, stage2ISQs))]

(***************************************************************************)
(* 4.3 Resilient JSON Recovery Pipeline                                    *)
(***************************************************************************)
\* what a throw statement or a runtime error leaves in place of a value
Threw == [t |-> "exception"]

\* xs.slice(0, n)
slice(xs, n) == SubSeq(xs, 1, IF Len(xs) < n THEN Len(xs) ELSE n)

\* the position of the first c in s at or after p, Len(s) + 1 when none
nextChar(s, c, p) ==
    IF \E i \in p..Len(s) : s[i] = c
    THEN CHOOSE i \in p..Len(s) : s[i] = c /\ \A j \in p..(i - 1) : s[j] # c
    ELSE Len(s) + 1

\* JSON.stringify of a string
quote(s) ==
    <<"\"">> \o flatten([i \in 1..Len(s) |->
                   CASE s[i] \in {"\"", "\\"} -> <<"\\", s[i]>>
                     [] s[i] = "\n" -> <<"\\", "n">>
                     [] s[i] = "\t" -> <<"\\", "t">>
                     [] s[i] = "\r" -> <<"\\", "r">>
                     [] OTHER -> <<s[i]>>]) \o <<"\"">>

\* JSON.stringify(value) for the values the payloads are made of: strings,
\* booleans, null, arrays and objects
RECURSIVE stringify(_)
stringify(value) ==
    CASE value.t = "string" -> quote(value.v)
      [] value.t = "boolean" -> IF value.v THEN <<"t","r","u","e">> ELSE <<"f","a","l","s","e">>
      [] value.t = "null" -> <<"n","u","l","l">>
      [] value.t = "array" ->
            <<"[">> \o join([i \in 1..Len(value.v) |-> stringify(value.v[i])], <<",">>) \o <<"]">>
      [] value.t = "object" ->
            <<"{">> \o join([i \in 1..Len(value.v) |->
                            quote(value.v[i][1]) \o <<":">> \o stringify(value.v[i][2])], <<",">>)
                 \o <<"}">>

\* the string literal of a JSON text whose opening quote is before position
\* p: its value and the position after the closing quote, or a SyntaxError
\* (ok = FALSE).  Of the escapes, \" \\ \/ \n \t \r are read.
RECURSIVE parseString(_, _, _)
parseString(s, p, acc) ==
    IF p > Len(s) \/ s[p] \in {"\n", "\r", "\t"} THEN [ok |-> FALSE]
    ELSE IF s[p] = "\"" THEN [ok |-> TRUE, v |-> Str(acc), p |-> p + 1]
    ELSE IF s[p] # "\\" THEN parseString(s, p + 1, Append(acc, s[p]))
    ELSE IF p = Len(s) THEN [ok |-> FALSE]
    ELSE CASE s[p + 1] \in {"\"", "\\", "/"} -> parseString(s, p + 2, Append(acc, s[p + 1]))
           [] s[p + 1] = "n" -> parseString(s, p + 2, Append(acc, "\n"))
           [] s[p + 1] = "t" -> parseString(s, p + 2, Append(acc, "\t"))
           [] s[p + 1] = "r" -> parseString(s, p + 2, Append(acc, "\r"))
           [] OTHER -> [ok |-> FALSE]

\* the number literal -?(0|[1-9]\d*)(\.\d+)? of a JSON text at position p
\* (exponents are not read)
parseNumber(s, p) ==
    LET read(q, num) ==
            IF q > Len(s) \/ num.len = 0 \/ (s[q] = "0" /\ q < Len(s) /\ IsDigit(s[q + 1]))
            THEN [ok |-> FALSE]
            ELSE [ok |-> TRUE, v |-> Num(IF q > p THEN 0 - num.value ELSE num.value),
                  p |-> q + num.len]
    IN read(IF s[p] = "-" THEN p + 1 ELSE p, numberAt(s, IF s[p] = "-" THEN p + 1 ELSE p))

\* the JSON value that starts at position p of s (white space skipped)
RECURSIVE parseValue(_, _)
\* the elements of an array from position p on, acc being those already read
RECURSIVE parseElements(_, _, _)
parseElements(s, p, acc) ==
    LET next(read, q) ==
            IF q > Len(s) THEN [ok |-> FALSE]
            ELSE IF s[q] = "]" THEN [ok |-> TRUE, v |-> Arr(read), p |-> q + 1]
            ELSE IF s[q] = "," THEN parseElements(s, skipSpace(s, q + 1), read)
            ELSE [ok |-> FALSE]
        after(element) ==
            IF element.ok THEN next(Append(acc, element.v), skipSpace(s, element.p))
            ELSE [ok |-> FALSE]
    IN after(parseValue(s, p))

\* the members of an object from position p on, acc being the entries
\* already read; a repeated key keeps its last value
RECURSIVE parseMembers(_, _, _)
parseMembers(s, p, acc) ==
    LET put(key, value) ==
            IF \E i \in 1..Len(acc) : acc[i][1] = key
            THEN [i \in 1..Len(acc) |-> IF acc[i][1] = key THEN <<key, value>> ELSE acc[i]]
            ELSE Append(acc, <<key, value>>)
        next(read, q) ==
            IF q > Len(s) THEN [ok |-> FALSE]
            ELSE IF s[q] = "}" THEN [ok |-> TRUE, v |-> Obj(read), p |-> q + 1]
            ELSE IF s[q] = "," THEN parseMembers(s, skipSpace(s, q + 1), read)
            ELSE [ok |-> FALSE]
        \* the key, where the colon has to be, and the value read after it
        member(key, colon, value) ==
            IF ~key.ok \/ colon > Len(s) \/ s[colon] # ":" \/ ~value.ok THEN [ok |-> FALSE]
            ELSE next(put(key.v.v, value.v), skipSpace(s, value.p))
    IN IF p > Len(s) \/ s[p] # "\"" THEN [ok |-> FALSE]
       ELSE member(parseString(s, p + 1, <<>>),
                   skipSpace(s, parseString(s, p + 1, <<>>).p),
                   parseValue(s, skipSpace(s,
                       skipSpace(s, parseString(s, p + 1, <<>>).p) + 1)))

parseValue(s, p) ==
    IF p > Len(s) THEN [ok |-> FALSE]
    ELSE CASE s[p] = "\"" -> parseString(s, p + 1, <<>>)
           [] s[p] = "[" ->
                IF skipSpace(s, p + 1) <= Len(s) /\ s[skipSpace(s, p + 1)] = "]"
                THEN [ok |-> TRUE, v |-> Arr(<<>>), p |-> skipSpace(s, p + 1) + 1]
                ELSE parseElements(s, skipSpace(s, p + 1), <<>>)
           [] s[p] = "{" ->
                IF skipSpace(s, p + 1) <= Len(s) /\ s[skipSpace(s, p + 1)] = "}"
                THEN [ok |-> TRUE, v |-> Obj(<<>>), p |-> skipSpace(s, p + 1) + 1]
                ELSE parseMembers(s, skipSpace(s, p + 1), <<>>)
           [] occursAt(s, <<"t","r","u","e">>, p) -> [ok |-> TRUE, v |-> Bool(TRUE), p |-> p + 4]
           [] occursAt(s, <<"f","a","l","s","e">>, p) -> [ok |-> TRUE, v |-> Bool(FALSE), p |-> p + 5]
           [] occursAt(s, <<"n","u","l","l">>, p) -> [ok |-> TRUE, v |-> Null, p |-> p + 4]
           [] s[p] = "-" \/ IsDigit(s[p]) -> parseNumber(s, p)
           [] OTHER -> [ok |-> FALSE]

\* JSON.parse(text): the value (ok = TRUE), or a SyntaxError (ok = FALSE)
JSONparse(text) ==
    LET whole(value) == IF value.ok /\ skipSpace(text, value.p) > Len(text)
                        THEN value ELSE [ok |-> FALSE]
    IN whole(parseValue(text, skipSpace(text, 1)))

\* "key"\s*:\s* anchored at position i of s (key with its quotes): the
\* position after the match, 0 when it does not match there
keyColonAt(s, key, i) ==
    LET value(q) == IF q <= Len(s) /\ s[q] = ":" THEN skipSpace(s, q + 1) ELSE 0
    IN IF occursAt(s, key, i) THEN value(skipSpace(s, i + Len(key))) ELSE 0

\* text.match(/"name"\s*:\s*"([^"]+)"/): the capture of the leftmost match
configNameMatch(text) ==
    LET closing(k) == nextChar(text, "\"", k + 1)
        matchesAt(k) == /\ k > 0 /\ k <= Len(text) /\ text[k] = "\""
                        /\ closing(k) > k + 1 /\ closing(k) <= Len(text)
        starts == {i \in 1..Len(text) : matchesAt(keyColonAt(text, <<"\"","n","a","m","e","\"">>, i))}
        capture(k) == SubSeq(text, k + 1, closing(k) - 1)
    IN IF starts = {} THEN [found |-> FALSE]
       ELSE [found |-> TRUE, name |-> capture(keyColonAt(text, <<"\"","n","a","m","e","\"">>, least(starts)))]

\* the captures of the successive matches, from position p on, of
\* /"options"\s*:\s*\[([\s\S]*?)\]/g (min = 0) and of
\* /"options"\s*:\s*\[([^\]]+)\]/g (min = 1)
RECURSIVE optionsMatches(_, _, _)
optionsMatches(text, p, min) ==
    LET closing(k) == nextChar(text, "]", k + 1)
        matchesAt(k) == /\ k > 0 /\ k <= Len(text) /\ text[k] = "["
                        /\ closing(k) <= Len(text) /\ closing(k) - k - 1 >= min
        starts == {i \in p..Len(text) : matchesAt(keyColonAt(text, <<"\"","o","p","t","i","o","n","s","\"">>, i))}
        captures(k) == <<SubSeq(text, k + 1, closing(k) - 1)>>
                       \o optionsMatches(text, closing(k) + 1, min)
    IN IF starts = {} THEN <<>>
       ELSE captures(keyColonAt(text, <<"\"","o","p","t","i","o","n","s","\"">>, least(starts)))

\* s.replace(pattern, replacement) for a string pattern: the first
\* occurrence only (the replacements hold no '$')
replaceFirst(s, pattern, replacement) ==
    IF indexOf(s, pattern) = 0 THEN s
    ELSE SubSeq(s, 1, indexOf(s, pattern) - 1) \o replacement
         \o from(s, indexOf(s, pattern) + Len(pattern))

\* the while loop of removeSpecNameFromOptions over matches[i..]
RECURSIVE removeFromOptions(_, _, _, _)
removeFromOptions(result, matches, i, configName) ==
    LET cleanOpt(opt) == SelectSeq(trim(opt), LAMBDA c : c \notin {"\"", "'"})
        filtered(optionsArray) ==
            SelectSeq(optionsArray, LAMBDA opt :
                toLowerCase(cleanOpt(opt)) # toLowerCase(configName))
        replaced(optionsArray, filteredOptions) ==
            IF Len(filteredOptions) < Len(optionsArray)
            THEN replaceFirst(result, matches[i], join(filteredOptions, <<",">>))
            ELSE result
        step(optionsArray) == replaced(optionsArray, filtered(optionsArray))
    IN IF i > Len(matches) THEN result
       ELSE removeFromOptions(step(split(matches[i], ",")), matches, i + 1, configName)

removeSpecNameFromOptions(text) ==
    LET remove(match) ==
            IF ~match.found THEN text
            ELSE removeFromOptions(text, optionsMatches(text, 1, 0), 1, match.name)
    IN remove(configNameMatch(text))

\* fixed.replace(/"([^"\n\r]*?)(?=\s*[,}\]])/g, '"$1"') from position p on
RECURSIVE closeStrings(_, _)
closeStrings(s, p) ==
    LET opening == nextChar(s, "\"", p)
        ahead(q) == q <= Len(s) /\ s[q] \in {",", "}", "]"}
        \* where a capture that starts after the quote may end
        ends == {e \in (opening + 1)..(Len(s) + 1) :
                    /\ \A j \in (opening + 1)..(e - 1) : s[j] \notin {"\"", "\n", "\r"}
                    /\ ahead(skipSpace(s, e))}
    IN IF opening > Len(s) THEN from(s, p)
       ELSE IF ends # {}
            THEN SubSeq(s, p, least(ends) - 1) \o <<"\"">> \o closeStrings(s, least(ends))
       ELSE SubSeq(s, p, opening) \o closeStrings(s, opening + 1)

\* fixed.replace(/(\[[^\]]*?)(\s*$)/g, '$1]'), and the same pattern with
\* braces: a bracket that no closing bracket follows closes the text, whose
\* trailing white space goes
closeAbruptEnd(s, open, close) ==
    IF \E i \in 1..Len(s) : s[i] = open /\ \A j \in (i + 1)..Len(s) : s[j] # close
    THEN SubSeq(s, 1, CHOOSE e \in 1..Len(s) :
                          ~IsSpace(s[e]) /\ \A j \in (e + 1)..Len(s) : IsSpace(s[j]))
         \o <<close>>
    ELSE s

\* fixed.replace(/,\s*([\]}])/g, '$1') from position p on
RECURSIVE dropTrailingCommas(_, _)
dropTrailingCommas(s, p) ==
    LET comma == nextChar(s, ",", p)
        closer(q) == q <= Len(s) /\ s[q] \in {"]", "}"}
    IN IF comma > Len(s) THEN from(s, p)
       ELSE IF closer(skipSpace(s, comma + 1))
            THEN SubSeq(s, p, comma - 1) \o dropTrailingCommas(s, skipSpace(s, comma + 1))
       ELSE SubSeq(s, p, comma) \o dropTrailingCommas(s, comma + 1)

\* the repaired text, or null when it still does not parse
fixIncompleteJSON(jsonStr) ==
    LET count(s, c) == Len(SelectSeq(s, LAMBDA x : x = c))
        repeat(c, n) == [i \in 1..n |-> c]
        missing(s, open, close) ==
            IF count(s, open) > count(s, close)
            THEN repeat(close, count(s, open) - count(s, close)) ELSE <<>>
        balanced(s) == s \o missing(s, "[", "]") \o missing(s, "{", "}")
        repaired(s) == dropTrailingCommas(
                           balanced(closeAbruptEnd(closeAbruptEnd(closeStrings(s, 1), "[", "]"),
                                                   "{", "}")), 1)
        checked(fixed, parsed) == IF parsed.ok THEN Str(fixed) ELSE Null
    IN checked(repaired(jsonStr), JSONparse(repaired(jsonStr)))

\* result.config of validateAndCleanParsedJSON; the comparison with the
\* name is a TypeError when the name is no string
cleanConfig(config) ==
    LET name == get(config, <<"n","a","m","e">>)
        options == get(config, <<"o","p","t","i","o","n","s">>)
        candidate(opt) == opt.t = "string" /\ trim(opt.v) # <<>> /\ Len(trim(opt.v)) < 50
        kept(opts) == SelectSeq(opts, LAMBDA opt :
                          candidate(opt) /\ toLowerCase(trim(opt.v)) # toLowerCase(name.v))
        made(opts) == Obj(<< <<<<"n","a","m","e">>, name>>, <<<<"o","p","t","i","o","n","s">>, Arr(opts)>> >>)
    IN IF ~(Truthy(config) /\ Truthy(name))
       THEN Obj(<< <<<<"n","a","m","e">>, Str(<<>>)>>, <<<<"o","p","t","i","o","n","s">>, Arr(<<>>)>> >>)
       ELSE IF options.t # "array" THEN made(<<>>)
       ELSE IF name.t # "string" /\ \E i \in 1..Len(options.v) : candidate(options.v[i])
            THEN Threw
       ELSE made(slice(kept(options.v), 8))

\* cleanKeys without the cap of three keys
cleanKeysUncapped(keys, configName) ==
    LET named(key) == /\ Truthy(key)
                      /\ get(key, <<"n","a","m","e">>).t = "string"
                      /\ get(key, <<"n","a","m","e">>).v # <<>>
                      /\ get(key, <<"n","a","m","e">>) # configName
        options(opts) == IF opts.t # "array" THEN <<>>
                         ELSE slice(SelectSeq(opts.v, LAMBDA opt :
                                        opt.t = "string" /\ trim(opt.v) # <<>>), 6)
        mapped(key) == Obj(<< <<<<"n","a","m","e">>, get(key, <<"n","a","m","e">>)>>,
                              <<<<"o","p","t","i","o","n","s">>, Arr(options(get(key, <<"o","p","t","i","o","n","s">>)))>> >>)
        all(ks) == [i \in 1..Len(ks) |-> mapped(ks[i])]
    IN IF keys.t # "array" THEN Arr(<<>>)
       ELSE Arr(SelectSeq(all(SelectSeq(keys.v, named)),
                          LAMBDA key : get(key, <<"o","p","t","i","o","n","s">>).v # <<>>))

\* result.keys of validateAndCleanParsedJSON
cleanKeys(keys, configName) ==
    LET named(key) == /\ Truthy(key)
                      /\ get(key, <<"n","a","m","e">>).t = "string"
                      /\ get(key, <<"n","a","m","e">>).v # <<>>
                      /\ get(key, <<"n","a","m","e">>) # configName
        options(opts) == IF opts.t # "array" THEN <<>>
                         ELSE slice(SelectSeq(opts.v, LAMBDA opt :
                                        opt.t = "string" /\ trim(opt.v) # <<>>), 6)
        mapped(key) == Obj(<< <<<<"n","a","m","e">>, get(key, <<"n","a","m","e">>)>>,
                              <<<<"o","p","t","i","o","n","s">>, Arr(options(get(key, <<"o","p","t","i","o","n","s">>)))>> >>)
        all(ks) == [i \in 1..Len(ks) |-> mapped(ks[i])]
    IN IF keys.t # "array" THEN Arr(<<>>)
       ELSE Arr(slice(SelectSeq(all(SelectSeq(keys.v, named)),
                                LAMBDA key : get(key, <<"o","p","t","i","o","n","s">>).v # <<>>), 3))

validateAndCleanParsedJSON(parsed) ==
    LET buyers(bs) == IF bs.t = "array" THEN Arr(slice(bs.v, 2)) ELSE Arr(<<>>)
        result(config) ==
            IF config = Threw THEN Threw
            ELSE Obj(<< <<<<"c","o","n","f","i","g">>, config>>,
                        <<<<"k","e","y","s">>, cleanKeys(get(parsed, <<"k","e","y","s">>), get(config, <<"n","a","m","e">>))>>,
                        <<<<"b","u","y","e","r","s">>, buyers(get(parsed, <<"b","u","y","e","r","s">>))>> >>)
    IN IF ~Truthy(parsed) \/ parsed.t \notin {"object", "array"} THEN Null
       ELSE result(cleanConfig(get(parsed, <<"c","o","n","f","i","g">>)))

\* the captures of the successive matches of /"([^"...]+)"/g in s from
\* position p on; stops are the characters, besides '"', the capture may
\* not hold
RECURSIVE quoted(_, _, _)
quoted(s, p, stops) ==
    LET open == nextChar(s, "\"", p)
        \* where the run of allowed characters after the opening quote ends
        runEnd == least({e \in (open + 1)..(Len(s) + 1) :
                            e > Len(s) \/ s[e] \in stops \cup {"\""}})
    IN IF open > Len(s) THEN <<>>
       ELSE IF runEnd <= Len(s) /\ s[runEnd] = "\"" /\ runEnd > open + 1
            THEN <<SubSeq(s, open + 1, runEnd - 1)>> \o quoted(s, runEnd + 1, stops)
       ELSE quoted(s, open + 1, stops)

extractOptionsFromString(str) ==
    SelectSeq(trimAll(quoted(str, 1, {})), LAMBDA opt : opt # <<>>)

keyPatterns == <<<<"F","i","n","i","s","h">>, <<"S","t","a","n","d","a","r","d">>, <<"T","y","p","e">>, <<"S","i","z","e">>, <<"T","h","i","c","k","n","e","s","s">>>>

\* text.match(/<name>[\s\S]*?"options"[\s\S]*?\[([^\]]+)\]/i)[1], and ''
\* when there is no match (a capture is never empty)
keyPatternMatch(text, name) ==
    LET low == toLowerCase(text)
        \* the position after the first pat at or after position i of low
        after(i, pat) == IF i = 0 \/ indexOf(from(low, i), pat) = 0 THEN 0
                         ELSE i + indexOf(from(low, i), pat) - 1 + Len(pat)
        closing(q) == nextChar(text, "]", q + 1)
        start == after(after(1, toLowerCase(name)), <<"\"","o","p","t","i","o","n","s","\"">>)
        hits == {q \in 1..(Len(text) - 2) :
                    /\ start > 0 /\ q >= start
                    /\ text[q] = "[" /\ text[q + 1] # "]" /\ closing(q) <= Len(text)}
    IN IF hits = {} THEN <<>>
       ELSE SubSeq(text, least(hits) + 1, closing(least(hits)) - 1)

\* the forEach of extractKeysFromTextContent over keyPatterns[k..], keys
\* being result.keys so far
RECURSIVE extractKeysFromTextContent(_, _, _, _)
extractKeysFromTextContent(text, configName, k, keys) ==
    LET pushed(options) ==
            IF options # <<>> /\ keyPatterns[k] # configName
            THEN Append(keys, Obj(<< <<<<"n","a","m","e">>, Str(keyPatterns[k])>>,
                                     <<<<"o","p","t","i","o","n","s">>, Arr([i \in 1..Len(slice(options, 6)) |->
                                                           Str(options[i])])>> >>))
            ELSE keys
    IN IF k > Len(keyPatterns) \/ Len(keys) >= 3 THEN keys
       ELSE extractKeysFromTextContent(text, configName, k + 1,
                pushed(extractOptionsFromString(keyPatternMatch(text, keyPatterns[k]))))

\* result.config.name of extractFromTextManually
manualName(text, nameMatch) ==
    IF nameMatch.found THEN nameMatch.name
    ELSE IF includes(text, <<"G","r","a","d","e">>) THEN <<"G","r","a","d","e">>
    ELSE IF includes(text, <<"M","a","t","e","r","i","a","l">>) THEN <<"M","a","t","e","r","i","a","l">>
    ELSE IF includes(text, <<"S","i","z","e">>) THEN <<"S","i","z","e">>
    ELSE <<"S","p","e","c","i","f","i","c","a","t","i","o","n">>

\* Array.from(allOptions) of extractFromTextManually
manualOptions(text, name) ==
    LET arrays(matches) == flatten([i \in 1..Len(matches) |-> quoted(matches[i], 1, {})])
        fromArrays == SelectSeq(trimAll(arrays(optionsMatches(text, 1, 1))), LAMBDA cleanOpt :
                          cleanOpt # <<>> /\ toLowerCase(cleanOpt) # toLowerCase(name))
        allQuoted == quoted(text, 1, {"\n", "\r", ",", ";", "[", "]", "{", "}"})
        fromQuoted == SelectSeq(trimAll(allQuoted), LAMBDA cleanOpt :
                          /\ Len(cleanOpt) > 1
                          /\ Len(cleanOpt) < 30
                          /\ ~includes(toLowerCase(cleanOpt), <<"n","a","m","e">>)
                          /\ ~includes(toLowerCase(cleanOpt), <<"o","p","t","i","o","n","s">>)
                          /\ ~includes(toLowerCase(cleanOpt), <<"c","o","n","f","i","g">>)
                          /\ ~includes(toLowerCase(cleanOpt), <<"k","e","y","s">>)
                          /\ toLowerCase(cleanOpt) # toLowerCase(name))
    IN unique(fromArrays \o fromQuoted)

extractFromTextManually(text) ==
    LET strings(options) == Arr([i \in 1..Len(options) |-> Str(options[i])])
        result(name, options, keys) ==
            Obj(<< <<<<"c","o","n","f","i","g">>, Obj(<< <<<<"n","a","m","e">>, Str(name)>>,
                                       <<<<"o","p","t","i","o","n","s">>, strings(slice(options, 8))>> >>)>>,
                   <<<<"k","e","y","s">>, Arr(keys)>>,
                   <<<<"b","u","y","e","r","s">>, Arr(<<>>)>> >>)
    IN result(manualName(text, configNameMatch(text)),
              manualOptions(text, manualName(text, configNameMatch(text))),
              extractKeysFromTextContent(text, manualName(text, configNameMatch(text)),
                                         1, <<>>))

\* what one try block of extractAnyJSONPossible comes to: the value it
\* returns, or the exception its catch swallows
tryParse(text) ==
    LET validated(parsed) == IF parsed.ok THEN validateAndCleanParsedJSON(parsed.v)
                             ELSE Threw
    IN validated(JSONparse(text))

\* the three tries on the cleaned text
parseCleaned(cleaned) ==
    LET second(fixedJSON, parsed) == IF Truthy(fixedJSON) THEN parsed ELSE Threw
        firstReturned(first, repaired, manual) ==
            IF first # Threw THEN first
            ELSE IF repaired # Threw THEN repaired
            ELSE manual
    IN firstReturned(tryParse(cleaned),
                     second(fixIncompleteJSON(cleaned), tryParse(fixIncompleteJSON(cleaned).v)),
                     extractFromTextManually(cleaned))

\* the text extractAnyJSONPossible parses: trimmed, cut after the last '}'
\* or ']', the spec name removed from the options arrays
cleanText(text) ==
    LET lastValidChar(cleaned) ==
            IF lastIndexOf(cleaned, <<"}">>) > lastIndexOf(cleaned, <<"]">>)
            THEN lastIndexOf(cleaned, <<"}">>) ELSE lastIndexOf(cleaned, <<"]">>)
        cut(cleaned) ==
            IF lastValidChar(cleaned) > 1 /\ lastValidChar(cleaned) < Len(cleaned)
            THEN SubSeq(cleaned, 1, lastValidChar(cleaned)) ELSE cleaned
    IN removeSpecNameFromOptions(cut(trim(text)))

extractAnyJSONPossible(text) == parseCleaned(cleanText(text))

\* the for-of loop of extractJSONFromGemini over parts[i..]: the structured
\* part it returns, or the text it collected; part.text of a part that is
\* null or undefined is a TypeError
RECURSIVE collectParts(_, _, _)
collectParts(parts, i, rawText) ==
    LET with(text) == IF text.t = "string" THEN rawText \o text.v \o <<"\n">> ELSE rawText
    IN IF i > Len(parts) THEN [returned |-> FALSE, rawText |-> rawText]
       ELSE IF IsNullish(parts[i]) THEN Threw
       ELSE IF Truthy(get(parts[i], <<"j","s","o","n">>))
            THEN [returned |-> TRUE, json |-> get(parts[i], <<"j","s","o","n">>)]
       ELSE collectParts(parts, i + 1, with(get(parts[i], <<"t","e","x","t">>)))

\* the try block of extractJSONFromGemini: an array of parts is iterated, a
\* string by its characters (which carry neither text nor json), anything
\* else is not iterable (a TypeError)
recoverJSON(response) ==
    LET parts == firstCandidateParts(response)
        \* what the loop came to, and what its text is recovered to
        result(loop, extracted) ==
            IF loop = Threw THEN Threw
            ELSE IF loop.returned THEN loop.json
            ELSE IF trim(loop.rawText) = <<>> THEN Null
            ELSE IF Truthy(extracted) THEN extracted
            ELSE Null
    IN IF hasNoCandidates(response) THEN Null
       ELSE IF parts.t = "string" THEN Null
       ELSE IF parts.t # "array" THEN Threw
       ELSE result(collectParts(parts.v, 1, <<>>),
                   extractAnyJSONPossible(collectParts(parts.v, 1, <<>>).rawText))

\* extractJSONFromGemini without its catch clause
extractJSONFromGeminiUncaught(response) == recoverJSON(response)

extractJSONFromGemini(response) ==
    LET caught(result) == IF result = Threw THEN Null ELSE result
    IN caught(recoverJSON(response))

(***************************************************************************)
(* 4.4 Text-Block Parser                                                   *)
(***************************************************************************)
irrelevantSpecs == <<
    <<"m","e","a","s","u","r","e","m","e","n","t"," ","s","y","s","t","e","m">>, <<"n","o"," ","d","a","t","a">>, <<"n","/","a">>, <<"n","o","t"," ","a","p","p","l","i","c","a","b","l","e">>, <<"a","v","a","i","l","a","b","i","l","i","t","y">>,
    <<"p","r","i","c","e">>, <<"d","e","l","i","v","e","r","y">>, <<"s","h","i","p","p","i","n","g">>, <<"p","a","y","m","e","n","t">>, <<"w","a","r","r","a","n","t","y">>, <<"g","u","a","r","a","n","t","e","e">>,
    <<"l","o","c","a","t","i","o","n">>, <<"s","e","l","l","e","r">>, <<"v","e","n","d","o","r">>, <<"s","u","p","p","l","i","e","r">> >>

isRelevantSpec(specName) ==
    ~\E k \in 1..Len(irrelevantSpecs) : includes(trim(toLowerCase(specName)), irrelevantSpecs[k])

irrelevantOptions == <<
    <<"o","t","h","e","r">>, <<"e","t","c">>, <<"n","/","a">>, <<"n","o","t"," ","a","p","p","l","i","c","a","b","l","e">>, <<"n","o"," ","d","a","t","a">>, <<"n","o","n","e">>, <<"s","e","l","e","c","t">>, <<"c","h","o","o","s","e">> >>

isRelevantOption(option) ==
    ~\E k \in 1..Len(irrelevantOptions) :
        \/ trim(toLowerCase(option)) = irrelevantOptions[k]
        \/ includes(trim(toLowerCase(option)), irrelevantOptions[k])

\* s holds a line feed at one of the positions a..b-1
hasNewline(s, a, b) == \E i \in a..(b - 1) : s[i] = "\n"

\* t, given in lower case, stands at position i of s in whatever case (flag i)
occursAtIgnoringCase(s, t, i) ==
    i >= 1 /\ i + Len(t) - 1 <= Len(s) /\ toLowerCase(SubSeq(s, i, i + Len(t) - 1)) = t

\* ===\s*<title>\s*===\s*\n\s*Name: at position st of the text: the position
\* after "Name:", 0 when the pattern does not match there
nameLabel(text, st, title) ==
    LET a == skipSpace(text, st + 3)
        b == skipSpace(text, a + Len(title))
        d == skipSpace(text, b + 3)
    IN IF /\ occursAt(text, <<"=","=","=">>, st)
          /\ occursAtIgnoringCase(text, title, a)
          /\ occursAt(text, <<"=","=","=">>, b)
          /\ hasNewline(text, b + 3, d)
          /\ occursAtIgnoringCase(text, <<"n","a","m","e",":">>, d)
       THEN d + 5 ELSE 0

\* \s*\n\s*Options: at position q, with at least one character after it:
\* the position after "Options:", 0 when the pattern does not match there
optionsLabel(text, q) ==
    LET f == skipSpace(text, q)
    IN IF /\ q <= Len(text) /\ IsSpace(text[q])
          /\ hasNewline(text, q, f)
          /\ occursAtIgnoringCase(text, <<"o","p","t","i","o","n","s",":">>, f)
          /\ f + 8 <= Len(text)
       THEN f + 8 ELSE 0

\* \s*(.+?)(?=\n===|\n\n|$) at position o: the greedy \s* gives back its last
\* character when nothing else is left, and the lazy group ends at the first
\* position that the lookahead accepts
optionsGroup(text, o) ==
    LET t == IF skipSpace(text, o) <= Len(text) THEN skipSpace(text, o) ELSE Len(text)
    IN SubSeq(text, t,
              least({u \in t..Len(text) :
                        \/ u = Len(text)
                        \/ occursAt(text, <<"\n","=","=","=">>, u + 1)
                        \/ occursAt(text, <<"\n","\n">>, u + 1)}))

\* \s*(.+?)\s*\n\s*Options:\s*(.+?)(?=...) at position n, after "Name:": the
\* name starts at the first character that is no white space and is the
\* shortest that "Options:" follows; when there is none, the greedy \s* gives
\* back characters and the name is the last white space that "Options:" follows
nameAndOptions(text, n) ==
    LET s == skipSpace(text, n)
        ends == {e \in s..Len(text) : optionsLabel(text, e + 1) # 0}
        blanks == {e \in n..(s - 1) : optionsLabel(text, e + 1) # 0}
        last == CHOOSE e \in blanks : \A o \in blanks : o <= e
    IN IF ends # {}
       THEN [matched |-> TRUE, name |-> SubSeq(text, s, least(ends)),
             options |-> optionsGroup(text, optionsLabel(text, least(ends) + 1))]
       ELSE IF blanks # {}
       THEN [matched |-> TRUE, name |-> SubSeq(text, last, last),
             options |-> optionsGroup(text, optionsLabel(text, last + 1))]
       ELSE [matched |-> FALSE]

\* text.match(/===\s*<title>\s*===\s*\n\s*Name:\s*(.+?)\s*\n\s*Options:\s*(.+?)(?=\n===|\n\n|$)/is):
\* the leftmost match
sectionMatch(text, title) ==
    LET starts == {st \in 1..Len(text) :
                      /\ text[st] = "="
                      /\ nameLabel(text, st, title) # 0
                      /\ nameAndOptions(text, nameLabel(text, st, title)).matched}
    IN IF starts = {} THEN [matched |-> FALSE]
       ELSE nameAndOptions(text, nameLabel(text, least(starts), title))

\* optionsStr.split(/\s*\|\s*/).map(trim).filter(...).slice(0, cap)
relevantOptions(optionsStr, cap) ==
    slice(SelectSeq(trimAll(split(trim(optionsStr), "|")),
                    LAMBDA opt : opt # <<>> /\ isRelevantOption(opt)), cap)

\* the config of the result after the config section was looked for
parsedConfig(configMatch) ==
    IF /\ configMatch.matched
       /\ isRelevantSpec(trim(configMatch.name))
       /\ relevantOptions(configMatch.options, 8) # <<>>
    THEN [name |-> trim(configMatch.name), options |-> relevantOptions(configMatch.options, 8)]
    ELSE [name |-> <<>>, options |-> <<>>]

\* what the loop over the key slots pushes for one slot
parsedKey(keyMatch) ==
    IF /\ keyMatch.matched
       /\ isRelevantSpec(trim(keyMatch.name))
       /\ trim(keyMatch.name) # <<>>
       /\ relevantOptions(keyMatch.options, 6) # <<>>
    THEN << [name |-> trim(keyMatch.name), options |-> relevantOptions(keyMatch.options, 6)] >>
    ELSE <<>>

\* the returns at the end of parseISQFromText, were a config demanded
parsedResultWithConfig(config, keys) ==
    IF config.name # <<>> /\ config.options # <<>> THEN [config |-> config, keys |-> keys]
    ELSE Null

\* the returns at the end of parseISQFromText
parsedResult(config, keys) ==
    IF config.name # <<>> /\ config.options # <<>> THEN [config |-> config, keys |-> keys]
    ELSE IF keys # <<>> THEN [config |-> config, keys |-> keys]
    ELSE Null

parseISQFromText(text) ==
    parsedResult(parsedConfig(sectionMatch(text, <<"c","o","n","f","i","g"," ","s","p","e","c","i","f","i","c","a","t","i","o","n">>)),
                 parsedKey(sectionMatch(text, <<"k","e","y"," ","s","p","e","c","i","f","i","c","a","t","i","o","n"," ","1">>))
                 \o parsedKey(sectionMatch(text, <<"k","e","y"," ","s","p","e","c","i","f","i","c","a","t","i","o","n"," ","2">>))
                 \o parsedKey(sectionMatch(text, <<"k","e","y"," ","s","p","e","c","i","f","i","c","a","t","i","o","n"," ","3">>)))

(***************************************************************************)
(* Stage 2: extractISQWithGemini                                           *)
(***************************************************************************)
\* the bundle that stands for "no data"
NoISQs == [config |-> [name |-> <<>>, options |-> <<>>], keys |-> <<>>, buyers |-> <<>>]

\* what urls.map has done when it returns: every callback has run up to its
\* await, so that the page of every URL is being fetched
pagesStarted(urls) == 1..Len(urls)

\* the results in the order in which the fetches ended
resultsAsSettled(settled) == settled

\* await Promise.all(urlContentsPromises): the results in the order of the
\* promises, whatever the order in which they were settled
promiseAll(settled) ==
    [i \in 1..Len(settled) |->
        settled[CHOOSE k \in 1..Len(settled) : settled[k].index = i]]

\* results.forEach(result => urlContents.push(result.content) ...)
urlContentsOf(results) == [i \in 1..Len(results) |-> results[i].content]

successfulFetches(results) ==
    SelectSeq([i \in 1..Len(results) |-> results[i].index],
              LAMBDA i : \E k \in 1..Len(results) :
                            results[k].index = i /\ results[k].content # <<>>)

\* the returns after parseISQFromText
extractedISQs(parsed) ==
    IF parsed = Null THEN NoISQs
    ELSE IF parsed.config.name = <<>> \/ parsed.config.options = <<>> THEN NoISQs
    ELSE [config |-> parsed.config, keys |-> parsed.keys, buyers |-> <<>>]

\* from the end of fetchWithRetry to the return; reply is what the model call
\* came to: "error" (fetchWithRetry or response.json() threw, which the catch
\* turns into the "no data" bundle) or "ok" with the response data
afterModelCall(reply) ==
    IF reply.kind # "ok" THEN NoISQs
    ELSE extractedISQs(parseISQFromText(extractRawText(reply.data)))

(***************************************************************************)
(* 4.8 Buyer ISQ generation: option curation and duplicate records         *)
(***************************************************************************)
\* the UTF-16 code units 32 to 95 and 97 to 126, in their order
CodeUnits == <<" ","!","\"","#","$","%","&","'","(",")","*","+",",","-",".","/","0","1","2","3","4","5","6","7","8","9",":",";","<","=",">","?","@","A","B","C","D","E","F","G","H","I","J","K","L","M","N","O","P","Q","R","S","T","U","V","W","X","Y","Z","[","\\","]","^","_","a","b","c","d","e","f","g","h","i","j","k","l","m","n","o","p","q","r","s","t","u","v","w","x","y","z","{","|","}","~">>

charCode(c) ==
    LET k == CHOOSE i \in 1..Len(CodeUnits) : CodeUnits[i] = c
    IN IF k <= 64 THEN 31 + k ELSE 32 + k

\* a < b for two strings: the order of Array.prototype.sort without a
\* comparator
RECURSIVE before(_, _)
before(a, b) ==
    IF b = <<>> THEN FALSE
    ELSE IF a = <<>> THEN TRUE
    ELSE IF a[1] = b[1] THEN before(Tail(a), Tail(b))
    ELSE charCode(a[1]) < charCode(b[1])

\* xs.sort() for an array of strings
RECURSIVE sort(_)
sort(xs) ==
    IF xs = <<>> THEN <<>>
    ELSE LET rest == sort(Tail(xs))
         IN SelectSeq(rest, LAMBDA y : before(y, Head(xs)))
            \o <<Head(xs)>>
            \o SelectSeq(rest, LAMBDA y : ~before(y, Head(xs)))

\* isq.options.map(opt => opt.toLowerCase().trim()).sort().join('|||')
optionsSignature(isq) ==
    join(sort([i \in 1..Len(isq.options) |-> trim(toLowerCase(isq.options[i]))]), <<"|","|","|">>)

\* the loop of removeDuplicateISQs over isqs[i..]: seen are the signatures
\* that seenOptionSets holds
RECURSIVE uniqueISQsFrom(_, _, _, _)
uniqueISQsFrom(isqs, i, uniqueISQs, seen) ==
    IF i > Len(isqs) THEN uniqueISQs
    ELSE IF optionsSignature(isqs[i]) \notin seen
         THEN uniqueISQsFrom(isqs, i + 1, Append(uniqueISQs, isqs[i]),
                             seen \cup {optionsSignature(isqs[i])})
    ELSE uniqueISQsFrom(isqs, i + 1, uniqueISQs, seen)

removeDuplicateISQs(isqs) == uniqueISQsFrom(isqs, 1, <<>>, {})

\* isOptionDuplicate with the comparison of the cleaned values only
isOptionDuplicateExact(option, existingOptions) ==
    \E i \in 1..Len(existingOptions) :
        toLowerCase(trim(option)) = toLowerCase(trim(existingOptions[i]))

isOptionDuplicate(option, existingOptions) ==
    \E i \in 1..Len(existingOptions) :
        \/ toLowerCase(trim(option)) = toLowerCase(trim(existingOptions[i]))
        \/ areOptionsStronglySimilar(option, existingOptions[i])

invalidPatterns == <<
    <<"o","t","h","e","r">>, <<"o","t","h","e","r","s">>, <<"v","a","r","i","o","u","s">>, <<"e","t","c">>, <<"e","t","c",".">>, <<"a","n","d"," ","m","o","r","e">>, <<"m","i","s","c","e","l","l","a","n","e","o","u","s">>,
    <<"m","i","s","c">>, <<"o","t","h","e","r"," ","o","p","t","i","o","n","s">>, <<"o","t","h","e","r"," ","v","a","l","u","e","s">>, <<"a","d","d","i","t","i","o","n","a","l">>, <<"e","x","t","r","a">>, <<"c","u","s","t","o","m">>,
    <<"s","p","e","c","i","f","y">>, <<"p","l","e","a","s","e"," ","s","p","e","c","i","f","y">>, <<"e","n","t","e","r"," ","v","a","l","u","e">>, <<"f","i","l","l"," ","i","n">>, <<"i","n","p","u","t"," ","r","e","q","u","i","r","e","d">>,
    <<"u","s","e","r"," ","d","e","f","i","n","e","d">>, <<"c","u","s","t","o","m","e","r"," ","d","e","f","i","n","e","d">>, <<"u","s","e","r"," ","i","n","p","u","t">>, <<"i","n","p","u","t"," ","h","e","r","e">>,
    <<"t","o"," ","b","e"," ","s","p","e","c","i","f","i","e","d">>, <<"t","b","d">>, <<"t",".","b",".","d",".">>, <<"t","o"," ","b","e"," ","d","e","t","e","r","m","i","n","e","d">>, <<"t","o"," ","b","e"," ","d","e","c","i","d","e","d">>,
    <<"s","e","l","e","c","t">>, <<"c","h","o","o","s","e">>, <<"p","i","c","k">>, <<"o","p","t","i","o","n">>, <<"o","p","t","i","o","n","s">> >>

\* invalidPatterns.some(...) of cleanBuyerISQOptions
isInvalid(optLower) ==
    \E k \in 1..Len(invalidPatterns) :
        \/ optLower = invalidPatterns[k]
        \/ occursAt(optLower, invalidPatterns[k] \o <<" ">>, 1)
        \/ occursAt(optLower, <<" ">> \o invalidPatterns[k],
                    Len(optLower) - Len(invalidPatterns[k]))
        \/ includes(optLower, <<" ">> \o invalidPatterns[k] \o <<" ">>)

\* the loop of cleanBuyerISQOptions over options[i..]
RECURSIVE cleanOptionsFrom(_, _, _, _)
cleanOptionsFrom(options, i, uniqueOpts, seenOptions) ==
    IF i > Len(options) THEN uniqueOpts
    ELSE IF trim(options[i]) = <<>> \/ isInvalid(toLowerCase(trim(options[i])))
         THEN cleanOptionsFrom(options, i + 1, uniqueOpts, seenOptions)
    ELSE IF /\ toLowerCase(trim(options[i])) \notin seenOptions
            /\ ~isOptionDuplicate(options[i], uniqueOpts)
         THEN cleanOptionsFrom(options, i + 1, Append(uniqueOpts, trim(options[i])),
                               seenOptions \cup {toLowerCase(trim(options[i]))})
    ELSE cleanOptionsFrom(options, i + 1, uniqueOpts, seenOptions)

cleanBuyerISQOptions(options) == cleanOptionsFrom(options, 1, <<>>, {})

\* the loop of enhanceOptionsLocally over stage1Options[i..]
RECURSIVE enhanceLocallyFrom(_, _, _, _, _)
enhanceLocallyFrom(commonOptions, stage1Options, neededCount, i, additionalOptions) ==
    IF i > Len(stage1Options) \/ Len(additionalOptions) >= neededCount
    THEN additionalOptions
    ELSE IF ~isOptionDuplicate(stage1Options[i], commonOptions \o additionalOptions)
         THEN enhanceLocallyFrom(commonOptions, stage1Options, neededCount, i + 1,
                                 Append(additionalOptions, stage1Options[i]))
    ELSE enhanceLocallyFrom(commonOptions, stage1Options, neededCount, i + 1,
                            additionalOptions)

enhanceOptionsLocally(commonOptions, stage1Options, neededCount) ==
    enhanceLocallyFrom(commonOptions, stage1Options, neededCount, 1, <<>>)

\* reply is what the model call came to: "nokey" (STAGE3_API_KEY is empty),
\* "error" (fetchWithRetry or response.json() threw) or "ok" with the
\* response body in reply.data
enhanceOptionsWithGemini(commonOptions, stage1Options, neededCount, reply) ==
    LET validOptions(selected) ==
            slice(SelectSeq([i \in 1..Len(selected) |->
                                IF selected[i].t = "string" THEN selected[i].v ELSE <<>>],
                            LAMBDA opt : trim(opt) # <<>>
                                         /\ ~isOptionDuplicate(opt, commonOptions)),
                  neededCount)
        selectedOr(result, local) ==
            IF Truthy(result) /\ get(result, <<"s","e","l","e","c","t","e","d","_","o","p","t","i","o","n","s">>).t = "array"
            THEN validOptions(get(result, <<"s","e","l","e","c","t","e","d","_","o","p","t","i","o","n","s">>).v)
            ELSE local
    IN IF reply.kind # "ok"
       THEN enhanceOptionsLocally(commonOptions, stage1Options, neededCount)
       ELSE selectedOr(extractJSONFromGemini(reply.data),
                       enhanceOptionsLocally(commonOptions, stage1Options, neededCount))

\* the body of the loop without the cut to eight options
buyerISQUncapped(commonSpec, stage1Specs, reply) ==
    LET commonOptions == SelectSeq(commonSpec.options, LAMBDA opt :
                             ~includes(toLowerCase(opt), <<"n","o"," ","c","o","m","m","o","n"," ","o","p","t","i","o","n","s"," ","a","v","a","i","l","a","b","l","e">>))
        stage1Spec == findStage1Match(stage1Specs, commonSpec.spec_name)
        made(options) == [name |-> commonSpec.spec_name,
                          options |-> cleanBuyerISQOptions(options)]
    IN IF stage1Spec = 0 \/ Len(commonOptions) >= 8 THEN made(commonOptions)
       ELSE made(commonOptions
                 \o enhanceOptionsWithGemini(commonOptions, stage1Specs[stage1Spec].options,
                                             8 - Len(commonOptions), reply))

\* the body of the for loop of generateBuyerISQsWithGemini: the ISQ pushed
\* for one common spec
buyerISQ(commonSpec, stage1Specs, reply) ==
    LET commonOptions == SelectSeq(commonSpec.options, LAMBDA opt :
                             ~includes(toLowerCase(opt), <<"n","o"," ","c","o","m","m","o","n"," ","o","p","t","i","o","n","s"," ","a","v","a","i","l","a","b","l","e">>))
        stage1Spec == findStage1Match(stage1Specs, commonSpec.spec_name)
        made(options) == [name |-> commonSpec.spec_name,
                          options |-> slice(cleanBuyerISQOptions(options), 8)]
    IN IF stage1Spec = 0 \/ Len(commonOptions) >= 8 THEN made(commonOptions)
       ELSE made(commonOptions
                 \o enhanceOptionsWithGemini(commonOptions, stage1Specs[stage1Spec].options,
                                             8 - Len(commonOptions), reply))

\* commonSpecs.slice(0, 2): the common specs that become buyer ISQs
TopSpecs == 2

\* replies[i] is what the model call for the i-th common spec came to
generateBuyerISQsWithGemini(commonSpecs, stage1Specs, replies) ==
    removeDuplicateISQs([i \in 1..Len(slice(commonSpecs, TopSpecs)) |->
                            buyerISQ(commonSpecs[i], stage1Specs, replies[i])])

(***************************************************************************)
(* fetchWithRetry: requests to the model with bounded retry                *)
(***************************************************************************)
\* what the body of the loop does when the request of the attempt has ended
\* with the outcome, without the test of the last attempt
afterFetchUnbounded(outcome, attempt, retries) ==
    IF outcome = "ok" THEN [pc |-> "done", output |-> [response |-> "ok"]]
    ELSE IF outcome \in {"429", "503", "502", "abort"}
         THEN [pc |-> "sleeping", output |-> <<>>]
    ELSE IF outcome = "failed"
         THEN [pc |-> "done", output |-> [threw |-> "fetch error"]]
    ELSE [pc |-> "done", output |-> [threw |-> "Gemini API error"]]

\* what the body of the loop does when the request of the attempt has ended
\* with the outcome: where the call goes on and what it has returned or thrown
afterFetch(outcome, attempt, retries) ==
    IF outcome = "ok" THEN [pc |-> "done", output |-> [response |-> "ok"]]
    ELSE IF outcome \in {"429", "503", "502"}
         THEN IF attempt = retries
              THEN [pc |-> "done", output |-> [threw |-> "Gemini overloaded"]]
              ELSE [pc |-> "sleeping", output |-> <<>>]
    ELSE IF outcome = "abort"
         THEN IF attempt = retries
              THEN [pc |-> "done", output |-> [threw |-> "Request timed out"]]
              ELSE [pc |-> "sleeping", output |-> <<>>]
    ELSE IF outcome = "failed"
         THEN [pc |-> "done", output |-> [threw |-> "fetch error"]]
    ELSE [pc |-> "done", output |-> [threw |-> "Gemini API error"]]

\* the common specs of the loop for which the model is called: those that go
\* with a Stage 1 record and have fewer than eight common options, when the
\* key is there
enhanceCalls(commonSpecs, stage1Specs, replies) ==
    {i \in 1..Len(slice(commonSpecs, TopSpecs)) :
        /\ findStage1Match(stage1Specs, commonSpecs[i].spec_name) # 0
        /\ Len(SelectSeq(commonSpecs[i].options, LAMBDA opt :
               ~includes(toLowerCase(opt), <<"n","o"," ","c","o","m","m","o","n"," ","o","p","t","i","o","n","s"," ","a","v","a","i","l","a","b","l","e">>))) < 8
        /\ replies[i].kind # "nokey"}

(***************************************************************************)
(* Input pools                                                             *)
(***************************************************************************)
\* specification names as the three sources spell them
SpecNames == {
    <<"G","r","a","d","e">>, <<"S","t","a","n","d","a","r","d">>, <<"M","a","t","e","r","i","a","l"," ","G","r","a","d","e">>, <<"Q","u","a","l","i","t","y">>, <<"G","r","a","d","e","s">>,
    <<"S","t","a","n","d","a","r","d","s">>, <<"G","R","A","D","E">>, <<"S","t","a","n","d","a","r","d"," ","o","f"," ","t","h","e"," ","S","h","e","e","t">>, <<"T","h","i","c","k","n","e","s","s">>, <<"T","h","k">>,
    <<"F","i","n","i","s","h">>, <<"T","y","p","e">>, <<"S","h","e","e","t">>, <<"S","i","z","e"," ","(","m","m",")">>, <<"S","t","d">>,
    <<"S","i","z","e"," ","i","n"," ","m","m">>, <<"G","r","a","d","e"," ","f","o","r"," ","P","i","p","e">>, <<"S","p","e","c","i","f","i","c","a","t","i","o","n">>, <<"P","e","r","f","o","r","a","t","i","o","n">>,
    <<"C","o","n","s","t","r","u","c","t","o","r">> }

\* material grades as procurement data spells them: a numeric grade code, an
\* optional letter suffix, and one of the alias spellings of the material groups
GradeCodes == <<<<"3","0","4">>, <<"3","1","6">>, <<"3","1","0">>>>
GradeSuffixes == <<<<"L">>, <<"S">>>>
AliasPrefixes == <<<<>>, <<"S","S">>, <<"S","S"," ">>, <<"S","t","a","i","n","l","e","s","s"," ","S","t","e","e","l"," ">>>>

Spelling(k, g, suffix) == AliasPrefixes[k] \o g \o suffix

GradeValues ==
    {Spelling(k, GradeCodes[g], suffix) :
        k \in 1..Len(AliasPrefixes), g \in 1..Len(GradeCodes),
        suffix \in {<<>>} \cup {GradeSuffixes[i] : i \in 1..Len(GradeSuffixes)}}

OptionValues ==
    GradeValues \cup
    { <<"s","s","3","0","4">>, <<"3","0","4"," ","L">>, <<"M","S">>, <<"M","i","l","d"," ","S","t","e","e","l">>, <<"I","S"," ","2","0","6","2">>,
      <<"2","m","m">>, <<"2",".","0"," ","m","m">>, <<"1"," ","i","n","c","h">>, <<"2","5",".","4","m","m">>, <<"2","5",".","5","m","m">>, <<"R","o","u","n","d">>, <<"C","i","r","c","u","l","a","r">>,
      <<"0"," ","m","m">>, <<"0",".","0"," ","c","m">>, <<"1"," ","c","m">>, <<"1","0"," ","m","m">>, <<"1","0",".","0","1"," ","m","m">>, <<"1","0",".","0","0","5"," ","m","m">>,
      <<"1"," ","m">>, <<"1","0","0","0","m","m">>, <<"1"," ","f","t">>, <<"3","0","4",".","8"," ","m","m">>, <<"2","\"">>, <<"5","0",".","8">> }

\* discrete catalogue values and the ranges another source reports for them
MagnitudeValues == { <<"0",".","5"," ","m","m">>, <<"1",".","0"," ","m","m">>, <<"1",".","5"," ","m","m">>, <<"2",".","0"," ","m","m">>, <<"2",".","5"," ","m","m">>, <<"0",".","1","4"," ","m","m">> }
RangeValues == { <<"0",".","1","4","-","2",".","0","0"," ","m","m">>, <<"0",".","5","-","2",".","0"," ","m","m">>, <<"1","-","2">>, <<"1",".","5"," ","-"," ","2",".","5"," ","c","m">> }

\* the longest option list the calls enumerate
MaxOptions == 3

\* all lists over S of at most n entries
RECURSIVE ListsUpTo(_, _)
ListsUpTo(S, n) ==
    IF n = 0 THEN {<<>>}
    ELSE LET shorter == ListsUpTo(S, n - 1)
         IN shorter \cup {Append(l, x) : l \in shorter, x \in S}

Stage1OptionLists ==
    ListsUpTo(MagnitudeValues, MaxOptions)
    \cup { <<<<"0",".","5"," ","m","m">>, <<"1",".","0"," ","m","m">>, <<"1",".","5"," ","m","m">>, <<"2",".","5"," ","m","m">>>>,
           <<<<"0",".","5"," ","m","m">>, <<"1",".","0"," ","m","m">>, <<"1",".","5"," ","m","m">>, <<"2",".","0"," ","m","m">>, <<"2",".","5"," ","m","m">>>>,
           <<<<"3","0","4">>, <<"3","1","6">>, <<"M","S">>>>, <<<<"3","0","4">>, <<"3","0","4","L">>, <<"3","1","6">>>>, <<<<"I","S"," ","2","0","6","2">>>> }

Stage2OptionLists ==
    {<<r>> : r \in RangeValues}
    \cup { <<<<"3","0","4">>, <<"3","1","6">>>>, <<<<"3","0","4">>, <<"3","1","6","L">>>>, <<<<"I","S"," ","2","0","6","2">>>>,
           <<<<"S","S"," ","3","0","4">>, <<"S","S","3","0","4">>>>, <<<<"1",".","0"," ","m","m">>, <<"0",".","1","4","-","2",".","0","0"," ","m","m">>>> }

\* Stage 1 records (uploaded data) and Stage 2 records (website data)
Stage1Records == {
    [spec_name |-> <<"G","r","a","d","e">>, options |-> <<<<"3","0","4">>, <<"3","1","6">>, <<"M","S">>>>, tier |-> <<"P","r","i","m","a","r","y">>],
    [spec_name |-> <<"S","t","a","n","d","a","r","d">>, options |-> <<<<"I","S"," ","2","0","6","2">>>>, tier |-> <<"S","e","c","o","n","d","a","r","y">>],
    [spec_name |-> <<"Q","u","a","l","i","t","y">>, options |-> <<<<"3","0","4","L">>, <<"R","o","u","n","d">>>>, tier |-> <<>>] }

Stage2Records == {
    [name |-> <<"M","a","t","e","r","i","a","l"," ","G","r","a","d","e">>, options |-> <<<<"3","0","4">>, <<"3","1","6">>>>],
    [name |-> <<"S","t","a","n","d","a","r","d">>, options |-> <<<<"I","S"," ","2","0","6","2">>>>],
    [name |-> <<"C","l","a","s","s">>, options |-> <<<<"S","S"," ","3","0","4">>, <<"C","i","r","c","u","l","a","r">>>>] }

\* the longest list of specification records the calls enumerate
MaxSpecs == 2

\* all lists over S of at most n entries, no entry twice
RECURSIVE DistinctListsUpTo(_, _)
DistinctListsUpTo(S, n) ==
    IF n = 0 THEN {<<>>}
    ELSE LET shorter == DistinctListsUpTo(S, n - 1)
         IN shorter \cup UNION {{Append(l, x) : x \in S \ {l[i] : i \in 1..Len(l)}} :
                                   l \in shorter}

Stage1SpecLists == DistinctListsUpTo(Stage1Records, MaxSpecs)
Stage2SpecLists == DistinctListsUpTo(Stage2Records, MaxSpecs)

\* records whose option lists hold a whitespace-only entry
BlankStage1 ==
    [spec_name |-> <<"F","i","n","i","s","h">>, options |-> <<<<" ">>, <<"G","l","o","s","s","y">>>>, tier |-> <<"S","e","c","o","n","d","a","r","y">>]

BlankStage2 == [name |-> <<"F","i","n","i","s","h">>, options |-> <<<<"M","a","t","t","e">>, <<" ">>>>]

Stage1ListsWithBlank ==
    Stage1SpecLists \cup {<<BlankStage1>>}
    \cup {<<r, BlankStage1>> : r \in {s \in Stage1Records : s.spec_name = <<"G","r","a","d","e">>}}

Stage2ListsWithBlank ==
    Stage2SpecLists \cup {<<BlankStage2>>}
    \cup {<<r, BlankStage2>> : r \in {s \in Stage2Records : s.name = <<"M","a","t","e","r","i","a","l"," ","G","r","a","d","e">>}}

\* records whose options meet a range, or several spellings of one value
ComparedStage1Lists ==
    Stage1SpecLists
    \cup { <<[spec_name |-> <<"T","h","i","c","k","n","e","s","s">>, options |-> <<<<"0",".","5"," ","m","m">>, <<"1",".","5"," ","m","m">>, <<"2",".","5"," ","m","m">>>>,
              tier |-> <<"P","r","i","m","a","r","y">>]>>,
           <<[spec_name |-> <<"G","r","a","d","e">>, options |-> <<<<"3","0","4">>, <<"S","S"," ","3","0","4">>, <<"3","1","6">>>>,
              tier |-> <<"P","r","i","m","a","r","y">>]>> }

ComparedStage2Lists ==
    Stage2SpecLists
    \cup { <<[name |-> <<"T","h","i","c","k","n","e","s","s">>, options |-> <<<<"0",".","1","4","-","2",".","0","0"," ","m","m">>>>]>> }

\* a list of records as a Stage1Output: one seller, one category; the first
\* record primary, the second secondary, the others tertiary
AsStage1Output(records) ==
    LET named == [i \in 1..Len(records) |->
                     [spec_name |-> IF "name" \in DOMAIN records[i] THEN records[i].name
                                    ELSE records[i].spec_name,
                      options |-> records[i].options]]
    IN [seller_specs |-> <<
           [mcats |-> <<
               [finalized_specs |->
                   [finalized_primary_specs |-> [specs |-> SubSeq(named, 1, IF named = <<>> THEN 0 ELSE 1)],
                    finalized_secondary_specs |-> [specs |-> SubSeq(named, 2, IF Len(named) < 2 THEN 1 ELSE 2)],
                    finalized_tertiary_specs |-> [specs |-> SubSeq(named, 3, Len(named))]]]
           >>] >>]

\* a list of Stage 2 records as a bundle: the first is the config, the others
\* are keys, or buyers
AsStage2Bundle(records, rest) ==
    [config |-> IF records = <<>> THEN [name |-> <<>>, options |-> <<>>] ELSE records[1],
     keys |-> IF rest = "keys" THEN SubSeq(records, 2, Len(records)) ELSE <<>>,
     buyers |-> IF rest = "buyers" THEN SubSeq(records, 2, Len(records)) ELSE <<>>]

\* a model response with one candidate whose parts are the given texts
TextResponse(texts) ==
    Obj(<< <<<<"c","a","n","d","i","d","a","t","e","s">>, Arr(<<
        Obj(<< <<<<"c","o","n","t","e","n","t">>, Obj(<< <<<<"p","a","r","t","s">>,
            Arr([i \in 1..Len(texts) |-> Obj(<< <<<<"t","e","x","t">>, Str(texts[i])>> >>)])>> >>)>> >>)
    >>)>> >>)

\* what the model answers when asked for the table of common specifications
TableTexts == {
    <<"S","p","e","c","i","f","i","c","a","t","i","o","n"," ","N","a","m","e"," ","|"," ","S","t","a","g","e"," ","1"," ","C","a","t","e","g","o","r","y"," ","|"," ","C","o","m","m","o","n"," ","O","p","t","i","o","n","s","\n","G","r","a","d","e"," ","|"," ","P","r","i","m","a","r","y"," ","|"," ","3","0","4",","," ","3","1","6","\n","S","t","a","n","d","a","r","d"," ","|"," ","S","e","c","o","n","d","a","r","y"," ","|"," ","I","S"," ","2","0","6","2">>,
    <<"G","r","a","d","e"," ","|"," ","P","r","i","m","a","r","y"," ","|"," ","3","0","4","L",","," ","9","9","9">>,
    <<"M","a","t","e","r","i","a","l"," ","G","r","a","d","e"," ","|"," ","3","0","4"," ",","," ","S","S"," ","3","1","6","\n","F","i","n","i","s","h"," ","|"," ","S","e","c","o","n","d","a","r","y"," ","|">>,
    <<"G","r","a","d","e"," ","|"," ","P","r","i","m","a","r","y","\n","-","-","-","\n","C","o","l","o","u","r"," ","|"," ","R","e","d">>,
    <<"S","t","a","n","d","a","r","d"," ","|"," ","S","e","c","o","n","d","a","r","y"," ","|"," ","N","o"," ","c","o","m","m","o","n"," ","o","p","t","i","o","n","s">>,
    <<"S","o","r","r","y",","," ","n","o"," ","t","a","b","l","e",".">>,
    <<>> }

ModelReplies ==
    {[kind |-> "nokey"], [kind |-> "error"]}
    \cup {[kind |-> "ok", data |-> TextResponse(<<t>>)] : t \in TableTexts}

\* config names and option values of the bundles the model is asked for
PayloadNames == {<<"G","r","a","d","e">>, <<"S","i","z","e">>}
PayloadOptions == {<<"3","0","4">>, <<"3","1","6">>, <<"G","r","a","d","e">>, <<"A">>, <<"E","n","a","m","e","l">>, <<"1",",","5"," ","m","m">>}

\* the longest list of config options the payloads enumerate
MaxPayloadOptions == 2

NineOptions == <<<<"2","0","1">>, <<"2","0","2">>, <<"3","0","4">>, <<"3","0","4","L">>, <<"3","1","0">>, <<"3","1","6">>, <<"3","1","6","L">>, <<"4","1","0">>, <<"4","3","0">>>>

PayloadKeys == {
    [name |-> <<"T","y","p","e">>, options |-> <<<<"G","r","a","d","e">>, <<"S","e","a","m","l","e","s","s">>>>],
    [name |-> <<"F","i","n","i","s","h">>, options |-> <<<<"M","a","t","t","e">>>>],
    [name |-> <<"G","r","a","d","e">>, options |-> <<<<"3","0","4">>>>],
    [name |-> <<"S","t","a","n","d","a","r","d">>, options |-> <<>>] }

FourKeys == <<
    [name |-> <<"F","i","n","i","s","h">>, options |-> <<<<"M","a","t","t","e">>, <<"2","B">>, <<"B","A">>, <<"N","o",".","4">>, <<"H","L">>, <<"M","i","r","r","o","r">>, <<"S","a","t","i","n">>>>],
    [name |-> <<"S","t","a","n","d","a","r","d">>, options |-> <<<<"A","S","T","M"," ","A","2","4","0">>>>],
    [name |-> <<"T","y","p","e">>, options |-> <<<<"S","e","a","m","l","e","s","s">>>>],
    [name |-> <<"T","h","i","c","k","n","e","s","s">>, options |-> <<<<"2"," ","m","m">>>>] >>

Buyers == <<Obj(<< <<<<"n","a","m","e">>, Str(<<"U","s","a","g","e">>)>>, <<<<"o","p","t","i","o","n","s">>, Arr(<<Str(<<"K","i","t","c","h","e","n">>)>>)>> >>),
            Obj(<< <<<<"n","a","m","e">>, Str(<<"O","r","i","g","i","n">>)>>, <<<<"o","p","t","i","o","n","s">>, Arr(<<>>)>> >>),
            Obj(<< <<<<"n","a","m","e">>, Str(<<"B","r","a","n","d">>)>>, <<<<"v","e","r","i","f","i","e","d">>, Bool(TRUE)>>, <<<<"n","o","t","e">>, Null>> >>)>>

\* a well-formed bundle {config: {name, options}, keys: [{name, options}],
\* buyers: [...]} as a JavaScript value
Payload(name, options, keys, buyers) ==
    LET strings(xs) == Arr([i \in 1..Len(xs) |-> Str(xs[i])])
        spec(n, os) == Obj(<< <<<<"n","a","m","e">>, Str(n)>>, <<<<"o","p","t","i","o","n","s">>, strings(os)>> >>)
    IN Obj(<< <<<<"c","o","n","f","i","g">>, spec(name, options)>>,
              <<<<"k","e","y","s">>, Arr([i \in 1..Len(keys) |-> spec(keys[i].name, keys[i].options)])>>,
              <<<<"b","u","y","e","r","s">>, Arr(buyers)>> >>)

\* a model response with one candidate whose parts are the given values
PartsResponse(parts) ==
    Obj(<< <<<<"c","a","n","d","i","d","a","t","e","s">>, Arr(<<
        Obj(<< <<<<"c","o","n","t","e","n","t">>, Obj(<< <<<<"p","a","r","t","s">>, parts>> >>)>> >>) >>)>> >>)

\* the serialised payload, as the one text fragment of a response
PayloadSample(name, options, keys, buyers) ==
    [kind |-> "payload",
     payload |-> Payload(name, options, keys, buyers),
     texts |-> <<stringify(Payload(name, options, keys, buyers))>>,
     structured |-> FALSE,
     response |-> TextResponse(<<stringify(Payload(name, options, keys, buyers))>>)]

\* the serialised payload, cut off after the last option string of the
\* config options array
TruncatedText(name, options) ==
    <<"{","\"","c","o","n","f","i","g","\"",":","{","\"","n","a","m","e","\"",":">> \o quote(name) \o <<",","\"","o","p","t","i","o","n","s","\"",":","[">>
    \o join([i \in 1..Len(options) |-> quote(options[i])], <<",">>)

TruncatedSample(name, options) ==
    [kind |-> "truncated",
     payload |-> Payload(name, options, <<>>, <<>>),
     texts |-> <<TruncatedText(name, options)>>,
     structured |-> FALSE,
     response |-> TextResponse(<<TruncatedText(name, options)>>)]

\* a response of text fragments that carry no serialised payload
TextSample(texts) ==
    [kind |-> "text", payload |-> Null, texts |-> texts, structured |-> FALSE,
     response |-> TextResponse(texts)]

\* a response with a structured part, after the given text fragments
StructuredSample(texts, payload) ==
    [kind |-> "structured", payload |-> payload, texts |-> texts, structured |-> TRUE,
     response |-> PartsResponse(Arr([i \in 1..Len(texts) |->
                                        Obj(<< <<<<"t","e","x","t">>, Str(texts[i])>> >>)]
                                    \o << Obj(<< <<<<"j","s","o","n">>, payload>> >>) >>))]

\* a response with neither a text fragment nor a structured part
BareSample(response) ==
    [kind |-> "bare", payload |-> Null, texts |-> <<>>, structured |-> FALSE,
     response |-> response]

RecoveryTexts == {
    <<<<>>>>, <<<<" "," ","\n"," ">>>>, <<<<"S","o","r","r","y",","," ","I"," ","c","a","n","n","o","t"," ","h","e","l","p"," ","w","i","t","h"," ","t","h","a","t",".">>>>,
    <<<<"1","2","3">>>>, <<<<"n","u","l","l">>>>, <<<<"\"","G","r","a","d","e","\"">>>>, <<<<"[","1",",","2">>>>, <<<<"[","\"","3","0","4","\"",","," ","\"","3","1","6","\"","]">>>>,
    <<<<"{","\"","c","o","n","f","i","g","\"",":","{","\"","n","a","m","e","\"",":","\"","G","r","a","d","e","\"">>>>,
    <<<<"{","\"","k","e","y","s","\"",":","[">>>>,
    <<<<"{","\"","c","o","n","f","i","g","\"",":","{","\"","n","a","m","e","\"",":","5",",","\"","o","p","t","i","o","n","s","\"",":","[","\"","3","0","4","\"","]","}","}">>>>,
    <<<<"{","\"","s","e","l","e","c","t","e","d","_","o","p","t","i","o","n","s","\"",":","[","\"","3","0","4","\"","]","}">>>>,
    <<<<"H","e","r","e"," ","i","s"," ","t","h","e"," ","J","S","O","N",":","\n","{","\"","c","o","n","f","i","g","\"",":","{","\"","n","a","m","e","\"",":","\"","G","r","a","d","e","\"",",","\"","o","p","t","i","o","n","s","\"",":","[","\"","3","0","4","\"","]","}","}","\n","H","o","p","e"," ","i","t"," ","h","e","l","p","s","!">>>>,
    <<<<"{","\"","c","o","n","f","i","g","\"",":","{","\"","n","a","m","e","\"",":","\"","G","r","a","d","e","\"",",","\"","o","p","t","i","o","n","s","\"",":","[","\"","3","0","4","\"","]","}",",","\"","k","e","y","s","\"",":","[","]",",","\"","b","u","y","e","r","s","\"",":","[","]","}","\n","D","o","n","e",".">>>>,
    <<<<"{","\"","c","o","n","f","i","g","\"",":","{","\"","n","a","m","e","\"",":","\"","G","r","a","d","e","\"",",">>>>,
    <<<<"{","\"","c","o","n","f","i","g","\"",":","{","\"","n","a","m","e","\"",":","\"","G","r","a","d","e","\"",",">>, <<"\"","o","p","t","i","o","n","s","\"",":","[","\"","3","0","4","\"",",","\"","3","1","6","\"","]","}","}">>>>,
    <<<<"{"," ","\"","c","o","n","f","i","g","\"",":"," ","{"," ","\"","n","a","m","e","\"",":"," ","\"","G","r","a","d","e","\"",",","\n"," ","\"","o","p","t","i","o","n","s","\"",":"," ","["," ","\"","3","0","4","\"",","," ","\"","G","r","a","d","e","\""," ","]"," ","}"," ","}">>>>,
    <<<<"{","\"","c","o","n","f","i","g","\"",":","{","\"","n","a","m","e","\"",":","\"","G","r","a","d","e","\"",",","\"","o","p","t","i","o","n","s","\"",":","[","\"","3","0","4","\"",",","]","}",",","}">>>>,
    <<<<"{","\"","c","o","n","f","i","g","\"",":","{","\"","n","a","m","e","\"",":","\"","\"",",","\"","o","p","t","i","o","n","s","\"",":","[","\"","1","0"," ","m","m","\"","]","}",",","\"","k","e","y","s","\"",":","[","{","\"","n","a","m","e","\"",":","\"","S","i","z","e","\"",",","\"","o","p","t","i","o","n","s","\"",":","[","\"","1","0"," ","m","m","\"","]","}","]">>>>,
    <<<<"F","i","n","i","s","h"," ","\"","o","p","t","i","o","n","s","\"",":"," ","[","\"","M","a","t","t","e","\"",","," ","\"","G","l","o","s","s","y","\"","]"," ","a","n","d"," ","T","y","p","e"," ","\"","o","p","t","i","o","n","s","\"",":"," ","[","\"","R","o","u","n","d","\"","]">>>>,
    <<<<"M","a","t","e","r","i","a","l",":"," ","\"","S","t","e","e","l","\"",";"," ","\"","A","l","l","o","y","\"">>>> }

BareResponses == {
    Undefined, Null, Str(<<"c","a","n","d","i","d","a","t","e","s">>), Obj(<<>>),
    Obj(<< <<<<"c","a","n","d","i","d","a","t","e","s">>, Arr(<<>>)>> >>),
    Obj(<< <<<<"c","a","n","d","i","d","a","t","e","s">>, Num(1)>> >>),
    Obj(<< <<<<"c","a","n","d","i","d","a","t","e","s">>, Arr(<<Null>>)>> >>),
    Obj(<< <<<<"c","a","n","d","i","d","a","t","e","s">>, Arr(<<Obj(<<>>)>>)>> >>),
    Obj(<< <<<<"c","a","n","d","i","d","a","t","e","s">>, Arr(<<Obj(<< <<<<"c","o","n","t","e","n","t">>, Null>> >>)>>)>> >>),
    PartsResponse(Undefined), PartsResponse(Null), PartsResponse(Arr(<<>>)),
    PartsResponse(Arr(<<Null>>)), PartsResponse(Arr(<<Obj(<<>>), Undefined>>)),
    PartsResponse(Num(5)), PartsResponse(Bool(TRUE)), PartsResponse(Obj(<<>>)),
    PartsResponse(Str(<<"{","}">>)),
    PartsResponse(Arr(<<Obj(<<>>)>>)),
    PartsResponse(Arr(<<Obj(<< <<<<"t","e","x","t">>, Num(5)>> >>)>>)),
    PartsResponse(Arr(<<Obj(<< <<<<"t","e","x","t">>, Null>>, <<<<"j","s","o","n">>, Null>> >>)>>)) }

RecoverySamples ==
    {PayloadSample(name, options, <<>>, <<>>) :
        name \in PayloadNames,
        options \in ListsUpTo(PayloadOptions, MaxPayloadOptions) \cup {NineOptions}}
    \cup {PayloadSample(<<"G","r","a","d","e">>, <<<<"3","0","4">>, <<"3","1","6">>>>, keys, SubSeq(Buyers, 1, b)) :
            keys \in DistinctListsUpTo(PayloadKeys, MaxSpecs) \cup {FourKeys},
            b \in 0..Len(Buyers)}
    \cup {TruncatedSample(name, options) :
            name \in PayloadNames,
            options \in (ListsUpTo(PayloadOptions, MaxPayloadOptions) \cup {NineOptions})
                        \ {<<>>}}
    \cup {TextSample(texts) : texts \in RecoveryTexts}
    \cup {StructuredSample(texts, Payload(<<"G","r","a","d","e">>, NineOptions, FourKeys, Buyers)) :
            texts \in {<<>>, <<<<"{","\"","c","o","n","f","i","g","\"",":","{","\"","n","a","m","e","\"",":","\"","S","i","z","e","\"","}","}">>>>}}
    \cup {StructuredSample(<<>>, Obj(<<>>))}
    \cup {BareSample(response) : response \in BareResponses}

\* values JSON.parse hands to validateAndCleanParsedJSON: the bundles above
\* and values of another type or shape
ParsedValues ==
    {sample.payload : sample \in {s \in RecoverySamples : s.kind = "payload"}}
    \cup {Null, Num(0), Num(5), Str(<<>>), Str(<<"G","r","a","d","e">>), Bool(TRUE), Bool(FALSE),
          Arr(<<>>), Arr(<<Str(<<"3","0","4">>), Str(<<"3","1","6">>)>>),
          Arr(<<Obj(<< <<<<"s","t","a","t","u","s">>, Str(<<"c","o","r","r","e","c","t">>)>> >>)>>),
          Obj(<<>>),
          Obj(<< <<<<"s","e","l","e","c","t","e","d","_","o","p","t","i","o","n","s">>, Arr(<<Str(<<"3","0","4">>)>>)>> >>),
          Obj(<< <<<<"s","e","l","l","e","r","_","s","p","e","c","s">>, Arr(<<>>)>> >>),
          Obj(<< <<<<"b","u","y","e","r","s">>, Arr(Buyers)>> >>),
          Obj(<< <<<<"c","o","n","f","i","g">>, Null>>, <<<<"k","e","y","s">>, Null>> >>),
          Obj(<< <<<<"c","o","n","f","i","g">>, Str(<<"G","r","a","d","e">>)>> >>),
          Obj(<< <<<<"c","o","n","f","i","g">>, Obj(<< <<<<"n","a","m","e">>, Num(5)>>,
                                     <<<<"o","p","t","i","o","n","s">>, Arr(<<Str(<<"3","0","4">>)>>)>> >>)>> >>),
          Obj(<< <<<<"c","o","n","f","i","g">>, Obj(<< <<<<"n","a","m","e">>, Str(<<"G","r","a","d","e">>)>> >>)>> >>),
          Obj(<< <<<<"k","e","y","s">>, Arr(<<Null, Str(<<"F","i","n","i","s","h">>),
                                  Obj(<< <<<<"n","a","m","e">>, Str(<<"F","i","n","i","s","h">>)>>,
                                         <<<<"o","p","t","i","o","n","s">>, Arr(<<Str(<<"M","a","t","t","e">>), Num(2), Str(<<" ">>)>>)>> >>)>>)>> >>) }

\* option values as a common spec or the model lists them
CurationOptions == {
    <<"3","0","4">>, <<"S","S"," ","3","0","4">>, <<" ","3","0","4"," ">>, <<"3","1","6">>, <<"o","t","h","e","r"," ","g","r","a","d","e","s">>, <<"2","m","m">>, <<"2",".","0"," ","m","m">>, <<>> }

CurationLists ==
    ListsUpTo(CurationOptions, MaxOptions)
    \cup { <<<<"R","o","u","n","d">>, <<"C","i","r","c","u","l","a","r">>, <<"M","S">>, <<"m","s">>>>,
           <<<<"O","t","h","e","r">>, <<"e","t","c",".">>, <<"3","0","4","L">>, <<"3","0","4">>>>,
           <<<<"S","t","a","i","n","l","e","s","s"," ","S","t","e","e","l"," ","3","0","4">>, <<"s","s","3","0","4">>, <<"3","1","6","L">>, <<"S","S"," ","3","1","6","L">>, <<"M","i","l","d"," ","S","t","e","e","l">>>> }

\* buyer ISQs before the removal of the records with the same options
ISQRecords == {
    [name |-> <<"G","r","a","d","e">>, options |-> <<<<"3","0","4">>, <<"3","1","6">>>>],
    [name |-> <<"M","a","t","e","r","i","a","l">>, options |-> <<<<"3","1","6">>, <<" ","3","0","4"," ">>>>],
    [name |-> <<"Q","u","a","l","i","t","y">>, options |-> <<<<"3","0","4","|","|","|","3","1","6">>>>],
    [name |-> <<"C","l","a","s","s">>, options |-> <<<<"S","S"," ","3","0","4">>, <<"3","1","6">>>>],
    [name |-> <<"T","y","p","e">>, options |-> <<<<"3","0","4">>, <<"3","1","6">>, <<"3","0","4">>>>],
    [name |-> <<"F","i","n","i","s","h">>, options |-> <<>>],
    [name |-> <<"C","o","l","o","u","r">>, options |-> <<>>] }

ISQLists == ListsUpTo(ISQRecords, MaxSpecs + 1)

\* common specs as Stage 3 hands them to the generation of the buyer ISQs
CommonSpecRecords == {
    [spec_name |-> <<"G","r","a","d","e">>, options |-> <<<<"3","0","4">>, <<"S","S"," ","3","0","4">>, <<"3","1","6">>>>,
     category |-> <<"P","r","i","m","a","r","y">>],
    [spec_name |-> <<"S","t","a","n","d","a","r","d">>, options |-> <<NoCommonOptions>>, category |-> <<"S","e","c","o","n","d","a","r","y">>],
    [spec_name |-> <<"Q","u","a","l","i","t","y">>, options |-> <<<<"3","0","4","L">>, <<"R","o","u","n","d">>, <<"O","t","h","e","r">>>>,
     category |-> <<"S","e","c","o","n","d","a","r","y">>],
    [spec_name |-> <<"C","o","l","o","u","r">>, options |-> <<<<"R","e","d">>, <<"r","e","d"," ">>, <<"B","l","u","e">>>>,
     category |-> <<"S","e","c","o","n","d","a","r","y">>],
    [spec_name |-> <<"M","a","t","e","r","i","a","l"," ","G","r","a","d","e">>, options |-> NineOptions, category |-> <<"P","r","i","m","a","r","y">>] }

CommonSpecLists ==
    DistinctListsUpTo(CommonSpecRecords, TopSpecs)
    \cup {<<s1, s2, s3>> : s1 \in {r \in CommonSpecRecords :
                                        r.spec_name \in {<<"G","r","a","d","e">>, <<"M","a","t","e","r","i","a","l"," ","G","r","a","d","e">>}},
                           s2 \in {r \in CommonSpecRecords : r.spec_name = <<"Q","u","a","l","i","t","y">>},
                           s3 \in {r \in CommonSpecRecords : r.spec_name = <<"C","o","l","o","u","r">>}}

\* the Stage 1 lists the options are filled up from
BuyerStage1Lists == {
    <<>>,
    <<[spec_name |-> <<"G","r","a","d","e">>, options |-> <<<<"3","0","4">>, <<"3","1","6">>, <<"M","S">>>>, tier |-> <<"P","r","i","m","a","r","y">>],
      [spec_name |-> <<"S","t","a","n","d","a","r","d">>, options |-> <<<<"I","S"," ","2","0","6","2">>>>, tier |-> <<"S","e","c","o","n","d","a","r","y">>]>>,
    <<[spec_name |-> <<"Q","u","a","l","i","t","y">>, options |-> <<<<"3","0","4","L">>, <<"R","o","u","n","d">>>>, tier |-> <<>>]>> }

\* what the call that asks the model for more options comes to
EnhanceReplies == {
    [kind |-> "error"],
    [kind |-> "ok", data |-> TextResponse(<<<<"{","\"","s","e","l","e","c","t","e","d","_","o","p","t","i","o","n","s","\"",":","[","\"","3","1","6","L","\"",",","\"","M","S","\"","]","}">>>>)],
    [kind |-> "ok", data |-> PartsResponse(Arr(<< Obj(<< <<<<"j","s","o","n">>,
        Obj(<< <<<<"s","e","l","e","c","t","e","d","_","o","p","t","i","o","n","s">>,
                 Arr(<<Str(<<"S","S","3","1","6">>), Str(<<"m","s">>), Num(5), Str(<<" ">>), Str(<<"M","S">>),
                       Str(<<"C","i","r","c","u","l","a","r">>), Str(<<"O","t","h","e","r">>)>>)>> >>)>> >>) >>))] }

\* the replies to the calls for the first two common specs: no call is made
\* without the key
EnhanceReplyLists ==
    {<<[kind |-> "nokey"], [kind |-> "nokey"]>>}
    \cup {<<r1, r2>> : r1 \in EnhanceReplies, r2 \in EnhanceReplies}

(***************************************************************************)
(* The calls.  Every call works on freshly constructed data: it starts     *)
(* from the idle state, records the function, its input and what it        *)
(* returned, and Return goes back to the idle state.                       *)
(***************************************************************************)
Init ==
    /\ pc = "idle"
    /\ fn = "none"
    /\ input = <<>>
    /\ output = <<>>
    /\ locals = <<>>

Return ==
    /\ pc = "done"
    /\ pc' = "idle"
    /\ fn' = "none"
    /\ input' = <<>>
    /\ output' = <<>>
    /\ locals' = <<>>

Call_normalizeSpecName ==
    /\ pc = "idle"
    /\ \E name \in SpecNames :
        /\ input' = <<name>>
        /\ output' = normalizeSpecName(name)
    /\ fn' = "normalizeSpecName"
    /\ pc' = "done"
    /\ UNCHANGED locals

Call_isSemanticallySimilar ==
    /\ pc = "idle"
    /\ \E spec1 \in SpecNames, spec2 \in SpecNames :
        /\ input' = <<spec1, spec2>>
        /\ output' = isSemanticallySimilar(spec1, spec2)
    /\ fn' = "isSemanticallySimilar"
    /\ pc' = "done"
    /\ UNCHANGED locals

Call_areOptionsStronglySimilar ==
    /\ pc = "idle"
    /\ \E opt1 \in OptionValues, opt2 \in OptionValues :
        /\ input' = <<opt1, opt2>>
        /\ output' = areOptionsStronglySimilar(opt1, opt2)
    /\ fn' = "areOptionsStronglySimilar"
    /\ pc' = "done"
    /\ UNCHANGED locals

Call_findCommonOptions ==
    /\ pc = "idle"
    /\ \E options1 \in Stage1OptionLists, options2 \in Stage2OptionLists :
        /\ input' = <<options1, options2>>
        /\ output' = findCommonOptions(options1, options2)
    /\ fn' = "findCommonOptions"
    /\ pc' = "done"
    /\ UNCHANGED locals

Call_compareResults ==
    /\ pc = "idle"
    /\ \E chatgpt \in ComparedStage1Lists, gemini \in ComparedStage2Lists :
        /\ input' = <<chatgpt, gemini>>
        /\ output' = compareResults(AsStage1Output(chatgpt), AsStage1Output(gemini))
    /\ fn' = "compareResults"
    /\ pc' = "done"
    /\ UNCHANGED locals

Call_findCommonSpecsLocally ==
    /\ pc = "idle"
    /\ \E stage1Specs \in Stage1ListsWithBlank, stage2 \in Stage2ListsWithBlank,
          rest \in {"keys", "buyers"} :
        /\ input' = <<stage1Specs, AsStage2Bundle(stage2, rest)>>
        /\ output' = findCommonSpecsLocally(stage1Specs, AsStage2Bundle(stage2, rest))
    /\ fn' = "findCommonSpecsLocally"
    /\ pc' = "done"
    /\ UNCHANGED locals

Call_parseCommonSpecsFromText ==
    /\ pc = "idle"
    /\ \E text \in TableTexts, stage1Specs \in Stage1SpecLists :
        /\ input' = <<text, stage1Specs>>
        /\ output' = parseCommonSpecsFromText(text, stage1Specs)
    /\ fn' = "parseCommonSpecsFromText"
    /\ pc' = "done"
    /\ UNCHANGED locals

Call_findCommonSpecsWithGemini ==
    /\ pc = "idle"
    /\ \E stage1Specs \in Stage1ListsWithBlank, stage2 \in Stage2ListsWithBlank,
          reply \in ModelReplies :
        /\ input' = <<stage1Specs, AsStage2Bundle(stage2, "keys"), reply>>
        /\ output' = findCommonSpecsWithGemini(stage1Specs,
                                               AsStage2Bundle(stage2, "keys"), reply)
    /\ fn' = "findCommonSpecsWithGemini"
    /\ pc' = "done"
    /\ UNCHANGED locals

Call_extractJSONFromGemini ==
    /\ pc = "idle"
    /\ \E sample \in RecoverySamples :
        /\ input' = <<sample>>
        /\ output' = extractJSONFromGemini(sample.response)
    /\ fn' = "extractJSONFromGemini"
    /\ pc' = "done"
    /\ UNCHANGED locals

Call_validateAndCleanParsedJSON ==
    /\ pc = "idle"
    /\ \E parsed \in ParsedValues :
        /\ input' = <<parsed>>
        /\ output' = validateAndCleanParsedJSON(parsed)
    /\ fn' = "validateAndCleanParsedJSON"
    /\ pc' = "done"
    /\ UNCHANGED locals

Call_cleanBuyerISQOptions ==
    /\ pc = "idle"
    /\ \E options \in CurationLists :
        /\ input' = <<options>>
        /\ output' = cleanBuyerISQOptions(options)
    /\ fn' = "cleanBuyerISQOptions"
    /\ pc' = "done"
    /\ UNCHANGED locals

Call_removeDuplicateISQs ==
    /\ pc = "idle"
    /\ \E isqs \in ISQLists :
        /\ input' = <<isqs>>
        /\ output' = removeDuplicateISQs(isqs)
    /\ fn' = "removeDuplicateISQs"
    /\ pc' = "done"
    /\ UNCHANGED locals

Call_generateBuyerISQsWithGemini ==
    /\ pc = "idle"
    /\ \E commonSpecs \in CommonSpecLists, stage1Specs \in BuyerStage1Lists,
          replies \in EnhanceReplyLists :
        /\ input' = <<commonSpecs, stage1Specs, replies>>
        /\ output' = generateBuyerISQsWithGemini(commonSpecs, stage1Specs, replies)
    /\ fn' = "generateBuyerISQsWithGemini"
    /\ pc' = "done"
    /\ UNCHANGED locals

\* how an attempt of fetchWithRetry can end: the response is ok, it has one
\* of the statuses, the timer of 60 s aborts the request ("abort"), or fetch
\* rejects with another error ("failed")
FetchOutcomes == {"ok", "429", "502", "503", "400", "500", "abort", "failed"}

\* the largest number of retries the calls enumerate
MaxRetries == 3

\* fetchWithRetry(url, options, retries, baseDelay): the call enters the loop
\* with attempt = 0; sent counts the requests, ended lists how they ended
Call_fetchWithRetry ==
    /\ pc = "idle"
    /\ \E retries \in 0..MaxRetries : input' = <<retries>>
    /\ fn' = "fetchWithRetry"
    /\ pc' = "loop"
    /\ locals' = [attempt |-> 0, sent |-> 0, ended |-> <<>>]
    /\ output' = <<>>

\* the test of the for loop: the next request is sent, or the loop is left
\* and the throw after it is reached
FetchAttempt ==
    /\ fn = "fetchWithRetry" /\ pc = "loop"
    /\ IF locals.attempt <= input[1]
       THEN /\ pc' = "fetching"
            /\ locals' = [locals EXCEPT !.sent = @ + 1]
            /\ output' = output
       ELSE /\ pc' = "done"
            /\ locals' = locals
            /\ output' = [threw |-> "Unreachable"]
    /\ UNCHANGED <<fn, input>>

\* the end of the await of fetch, and what the body of the loop does with it
FetchEnds ==
    /\ fn = "fetchWithRetry" /\ pc = "fetching"
    /\ \E outcome \in FetchOutcomes :
        /\ locals' = [locals EXCEPT !.ended = Append(@, outcome)]
        /\ pc' = afterFetch(outcome, locals.attempt, input[1]).pc
        /\ output' = afterFetch(outcome, locals.attempt, input[1]).output
    /\ UNCHANGED <<fn, input>>

\* the end of the await of sleep(waitTime); continue
SleepEnds ==
    /\ fn = "fetchWithRetry" /\ pc = "sleeping"
    /\ locals' = [locals EXCEPT !.attempt = @ + 1]
    /\ pc' = "loop"
    /\ UNCHANGED <<fn, input, output>>

\* A section of a model answer in the text-block convention: whether it is
\* there, its name, its options line, whether the section is a valid one
\* and the options a valid section keeps
NoSection == [present |-> FALSE, name |-> <<>>, options |-> <<>>, valid |-> FALSE, kept |-> <<>>]

ConfigSections == {
    NoSection,
    [present |-> TRUE, name |-> <<"M","a","t","e","r","i","a","l">>, options |-> <<"S","S"," ","3","0","4"," ","|"," ","S","S"," ","3","1","6"," ","|"," ","O","t","h","e","r">>,
     valid |-> TRUE, kept |-> << <<"S","S"," ","3","0","4">>, <<"S","S"," ","3","1","6">> >>],
    [present |-> TRUE, name |-> <<"P","r","i","c","e"," ","R","a","n","g","e">>, options |-> <<"1","0","0"," ","|"," ","2","0","0">>,
     valid |-> FALSE, kept |-> <<>>],
    [present |-> TRUE, name |-> <<"F","i","n","i","s","h">>, options |-> <<"O","t","h","e","r"," ","|"," ","N","/","A"," ","|"," ","N","o","n","e">>,
     valid |-> FALSE, kept |-> <<>>],
    [present |-> TRUE, name |-> <<"S","i","z","e">>, options |-> <<"1"," ","|"," ","2"," ","|"," ","3"," ","|"," ","4"," ","|"," ","5"," ","|"," ","6"," ","|"," ","7"," ","|"," ","8"," ","|"," ","9">>,
     valid |-> TRUE, kept |-> << <<"1">>, <<"2">>, <<"3">>, <<"4">>, <<"5">>, <<"6">>, <<"7">>, <<"8">> >>],
    [present |-> TRUE, name |-> <<>>, options |-> <<"A"," ","|"," ","B">>,
     valid |-> FALSE, kept |-> <<>>] }

KeySections == <<
    { NoSection,
      [present |-> TRUE, name |-> <<"G","r","a","d","e">>, options |-> <<"3","0","4"," ","|"," ","3","1","6">>,
       valid |-> TRUE, kept |-> << <<"3","0","4">>, <<"3","1","6">> >>],
      [present |-> TRUE, name |-> <<"W","a","r","r","a","n","t","y">>, options |-> <<"1"," ","Y","e","a","r">>,
       valid |-> FALSE, kept |-> <<>>] },
    { NoSection,
      [present |-> TRUE, name |-> <<"S","h","a","p","e">>, options |-> <<" ","R","o","u","n","d"," ","|","S","q","u","a","r","e","|"," ">>,
       valid |-> TRUE, kept |-> << <<"R","o","u","n","d">>, <<"S","q","u","a","r","e">> >>],
      [present |-> TRUE, name |-> <<"L","e","n","g","t","h">>, options |-> <<"1"," ","m"," ","|"," ","2"," ","m"," ","|"," ","3"," ","m"," ","|"," ","4"," ","m"," ","|"," ","5"," ","m"," ","|"," ","6"," ","m"," ","|"," ","7"," ","m">>,
       valid |-> TRUE, kept |-> << <<"1"," ","m">>, <<"2"," ","m">>, <<"3"," ","m">>, <<"4"," ","m">>, <<"5"," ","m">>, <<"6"," ","m">> >>] },
    { NoSection,
      [present |-> TRUE, name |-> <<"F","i","n","i","s","h">>, options |-> <<"M","a","t","t","e","|","e","t","c">>,
       valid |-> TRUE, kept |-> << <<"M","a","t","t","e">> >>],
      [present |-> TRUE, name |-> <<"C","o","l","o","r">>, options |-> <<"S","e","l","e","c","t"," ","|"," ","C","h","o","o","s","e">>,
       valid |-> FALSE, kept |-> <<>>] } >>

\* The two layouts of an answer: 1 has the sections in the order of the
\* prompt, a blank line between them; 2 has them in the opposite order, in
\* lower case and without blank lines
Answers ==
    { a \in [config : ConfigSections, keys : KeySections[1] \X KeySections[2] \X KeySections[3],
             layout : {1, 2}] :
        (a.config.present /\ a.config.name = <<>>) => a.layout = 2 }

sectionText(title, section, layout) ==
    IF ~section.present THEN <<>>
    ELSE IF layout = 1
    THEN <<"=","=","="," ">> \o title \o <<" ","=","=","=","\n","N","a","m","e",":"," ">> \o section.name \o <<"\n","O","p","t","i","o","n","s",":"," ">> \o section.options
         \o <<"\n","\n">>
    ELSE <<"=","=","=">> \o toLowerCase(title) \o <<"=","=","="," ","\n"," ","n","a","m","e",":"," ">> \o section.name \o <<" ","\n","\t","o","p","t","i","o","n","s",":"," "," ">>
         \o section.options \o <<"\n">>

answerText(a) ==
    IF a.layout = 1
    THEN <<"H","e","r","e"," ","a","r","e"," ","t","h","e"," ","s","p","e","c","i","f","i","c","a","t","i","o","n","s",":","\n","\n">>
         \o sectionText(<<"C","O","N","F","I","G"," ","S","P","E","C","I","F","I","C","A","T","I","O","N">>, a.config, 1)
         \o sectionText(<<"K","E","Y"," ","S","P","E","C","I","F","I","C","A","T","I","O","N"," ","1">>, a.keys[1], 1)
         \o sectionText(<<"K","E","Y"," ","S","P","E","C","I","F","I","C","A","T","I","O","N"," ","2">>, a.keys[2], 1)
         \o sectionText(<<"K","E","Y"," ","S","P","E","C","I","F","I","C","A","T","I","O","N"," ","3">>, a.keys[3], 1)
    ELSE sectionText(<<"K","E","Y"," ","S","P","E","C","I","F","I","C","A","T","I","O","N"," ","3">>, a.keys[3], 2)
         \o sectionText(<<"K","E","Y"," ","S","P","E","C","I","F","I","C","A","T","I","O","N"," ","2">>, a.keys[2], 2)
         \o sectionText(<<"K","E","Y"," ","S","P","E","C","I","F","I","C","A","T","I","O","N"," ","1">>, a.keys[1], 2)
         \o sectionText(<<"C","O","N","F","I","G"," ","S","P","E","C","I","F","I","C","A","T","I","O","N">>, a.config, 2)

Call_parseISQFromText ==
    /\ pc = "idle"
    /\ \E a \in Answers :
        /\ input' = << answerText(a) >>
        /\ output' = parseISQFromText(answerText(a))
    /\ fn' = "parseISQFromText"
    /\ pc' = "done"
    /\ UNCHANGED locals

MaxUrls == 3

\* the URL at place i of the list and the text that fetchURL gets from it
url(i) == <<"h","t","t","p","s",":","/","/","e","x","a","m","p","l","e",".","c","o","m","/">> \o << Digits[i + 1] >>

page(i) == <<"S","p","e","c","i","f","i","c","a","t","i","o","n","s"," ","o","f"," ","p","r","o","d","u","c","t"," ">> \o << Digits[i + 1] >>

\* what the model answers in Stage 2
Stage2Replies ==
    {[kind |-> "error"]}
    \cup {[kind |-> "ok", data |-> TextResponse(<< answerText(a) >>)] :
            a \in {b \in Answers :
                    /\ b.layout = 1
                    /\ b.config.name \in {<<>>, <<"M","a","t","e","r","i","a","l">>, <<"P","r","i","c","e"," ","R","a","n","g","e">>}
                    /\ b.keys \in {<<NoSection, NoSection, NoSection>>} \cup
                         {k \in KeySections[1] \X KeySections[2] \X KeySections[3] :
                            /\ k[1].name = <<"G","r","a","d","e">>
                            /\ k[2].name \in {<<>>, <<"L","e","n","g","t","h">>}
                            /\ k[3].name = <<>>}}}

Call_extractISQWithGemini ==
    /\ pc = "idle"
    /\ \E hasKey \in BOOLEAN, n \in 0..MaxUrls :
        /\ input' = <<hasKey, [i \in 1..n |-> url(i)]>>
        /\ IF hasKey THEN pc' = "sleeping" /\ output' = <<>>
           ELSE pc' = "done" /\ output' = Threw
    /\ fn' = "extractISQWithGemini"
    /\ locals' = [started |-> {}, settled |-> <<>>, urlContents |-> <<>>,
                  modelCalled |-> FALSE, reply |-> [kind |-> "none"]]

\* await sleep(2000) ends and urls.map runs
PagesStart ==
    /\ fn = "extractISQWithGemini" /\ pc = "sleeping"
    /\ locals' = [locals EXCEPT !.started = pagesStarted(input[2])]
    /\ pc' = "fetchingPages"
    /\ UNCHANGED <<fn, input, output>>

\* fetchURL ends for one of the pages being fetched, with the text of the
\* page or, all proxies having failed, with ""
PageFetched ==
    /\ fn = "extractISQWithGemini" /\ pc = "fetchingPages"
    /\ \E i \in locals.started : \E content \in {<<>>, page(i)} :
        /\ \A k \in 1..Len(locals.settled) : locals.settled[k].index # i
        /\ locals' = [locals EXCEPT
                        !.settled = Append(@, [url |-> input[2][i], content |-> content, index |-> i])]
    /\ UNCHANGED <<pc, fn, input, output>>

\* await Promise.all ends: from there to the call of the model
AllFetched ==
    /\ fn = "extractISQWithGemini" /\ pc = "fetchingPages"
    /\ Len(locals.settled) = Len(input[2])
    /\ IF successfulFetches(promiseAll(locals.settled)) = <<>>
       THEN /\ pc' = "done"
            /\ output' = NoISQs
            /\ locals' = [locals EXCEPT !.urlContents = urlContentsOf(promiseAll(locals.settled))]
       ELSE /\ pc' = "callingModel"
            /\ output' = output
            /\ locals' = [locals EXCEPT !.urlContents = urlContentsOf(promiseAll(locals.settled)),
                                        !.modelCalled = TRUE]
    /\ UNCHANGED <<fn, input>>

\* await fetchWithRetry ends: from there to the return
ModelAnswers ==
    /\ fn = "extractISQWithGemini" /\ pc = "callingModel"
    /\ \E reply \in Stage2Replies :
        /\ locals' = [locals EXCEPT !.reply = reply]
        /\ output' = afterModelCall(reply)
    /\ pc' = "done"
    /\ UNCHANGED <<fn, input>>

NextNames == Call_normalizeSpecName \/ Call_isSemanticallySimilar \/ Return

SpecNamesOnly == Init /\ [][NextNames]_vars

NextOptions == Call_areOptionsStronglySimilar \/ Return

SpecOptions == Init /\ [][NextOptions]_vars

NextMatch ==
    \/ Call_compareResults
    \/ Call_findCommonSpecsLocally
    \/ Call_parseCommonSpecsFromText
    \/ Call_findCommonSpecsWithGemini
    \/ Return

SpecMatch == Init /\ [][NextMatch]_vars

NextCommonOptions == Call_findCommonOptions \/ Return

SpecCommonOptions == Init /\ [][NextCommonOptions]_vars

NextJSON == Call_extractJSONFromGemini \/ Call_validateAndCleanParsedJSON \/ Return

SpecJSON == Init /\ [][NextJSON]_vars

NextCuration ==
    \/ Call_cleanBuyerISQOptions
    \/ Call_removeDuplicateISQs
    \/ Call_generateBuyerISQsWithGemini
    \/ Return

SpecCuration == Init /\ [][NextCuration]_vars

NextRetry ==
    \/ Call_fetchWithRetry
    \/ FetchAttempt
    \/ FetchEnds
    \/ SleepEnds
    \/ Call_parseISQFromText
    \/ Return

\* a request ends, by a response, an error or the abort of the timer, a sleep
\* ends, and a step of the call itself is taken
SpecRetry ==
    /\ Init /\ [][NextRetry]_vars
    /\ WF_vars(FetchAttempt) /\ WF_vars(FetchEnds) /\ WF_vars(SleepEnds)

NextStage2 ==
    \/ Call_parseISQFromText
    \/ Call_extractISQWithGemini
    \/ PagesStart
    \/ PageFetched
    \/ AllFetched
    \/ ModelAnswers
    \/ Return

SpecStage2 == Init /\ [][NextStage2]_vars

(***************************************************************************)
(* Properties                                                              *)
(***************************************************************************)
Called(f) == pc = "done" /\ fn = f

\* what the option matcher compares: the value lower-cased and trimmed
Clean(opt) == trim(toLowerCase(opt))

InSameAliasList(a, b) == inSameGroup(materialGroups, Clean(a), Clean(b))

GradesDiffer(a, b) ==
    LET grade1 == extractGrade(Clean(a))
        grade2 == extractGrade(Clean(b))
    IN grade1.matched /\ grade2.matched /\ grade1.grade # grade2.grade

EqualIgnoringSpaces(a, b) == removeSpaces(Clean(a)) = removeSpaces(Clean(b))

OptionExamples ==
    /\ input = <<<<"3","0","4">>, <<"3","0","4","L">>>> => output = FALSE
    /\ input = <<<<"3","0","4">>, <<"S","S","3","0","4">>>> => output = TRUE
    /\ input = <<<<"s","s","3","0","4">>, <<"S","S"," ","3","0","4">>>> => output = TRUE

\* C1 as stated: two values of the same material alias list whose extracted
\* grade tokens differ are never similar; with equal grades, or a grade that
\* cannot be extracted, they are similar; 304/304L, 304/SS304, ss304/SS 304.
C1_GradeGuardOriginal ==
    Called("areOptionsStronglySimilar") =>
        /\ InSameAliasList(input[1], input[2]) /\ GradesDiffer(input[1], input[2])
               => output = FALSE
        /\ InSameAliasList(input[1], input[2]) /\ ~GradesDiffer(input[1], input[2])
               => output = TRUE
        /\ OptionExamples

\* C1 amended: the grade guard decides only the values that are not already
\* equal once lower-cased and stripped of whitespace ("304 L" and "304L" are
\* similar by the whitespace-insensitive match, which comes first).
C1_GradeGuard ==
    Called("areOptionsStronglySimilar") =>
        /\ (/\ InSameAliasList(input[1], input[2])
            /\ GradesDiffer(input[1], input[2])
            /\ ~EqualIgnoringSpaces(input[1], input[2]))
               => output = FALSE
        /\ InSameAliasList(input[1], input[2]) /\ ~GradesDiffer(input[1], input[2])
               => output = TRUE
        /\ OptionExamples

C1_Witness ==
    /\ Called("areOptionsStronglySimilar")
    /\ input = <<<<"S","t","a","i","n","l","e","s","s"," ","S","t","e","e","l"," ","3","0","4">>, <<"S","S"," ","3","0","4","L">>>>
    /\ InSameAliasList(input[1], input[2])
    /\ GradesDiffer(input[1], input[2])
    /\ output = FALSE

\* C2: a grade code and the same code with a letter suffix are never similar,
\* whichever alias spelling ("g", "SSg", "SS g", "Stainless Steel g") each uses.
C2_GradeSuffixExactness ==
    Called("areOptionsStronglySimilar") =>
        \A g \in 1..Len(GradeCodes), i \in 1..Len(GradeSuffixes),
           k1 \in 1..Len(AliasPrefixes), k2 \in 1..Len(AliasPrefixes) :
            LET plain == Spelling(k1, GradeCodes[g], <<>>)
                suffixed == Spelling(k2, GradeCodes[g], GradeSuffixes[i])
            IN input \in {<<plain, suffixed>>, <<suffixed, plain>>} => output = FALSE

\* C3: a name that normalizes to "grade" and one that normalizes to "standard"
\* are not similar; in particular "Grade" and "Standard".
C3_GradeIsNotStandard ==
    Called("isSemanticallySimilar") =>
        ({normalizeSpecName(input[1]), normalizeSpecName(input[2])}
            = {<<"g","r","a","d","e">>, <<"s","t","a","n","d","a","r","d">>} => output = FALSE)

C3_Witness ==
    /\ Called("isSemanticallySimilar")
    /\ input = <<<<"G","r","a","d","e">>, <<"S","t","a","n","d","a","r","d">>>>
    /\ output = FALSE

\* the value match vm lies in the range match r with compatible units
Inside(vm, r) ==
    /\ vm.matched /\ r.matched
    /\ (r.unit = <<>> \/ vm.valueUnit = <<>> \/ r.unit = vm.valueUnit)
    /\ r.min <= vm.value /\ vm.value <= r.max

\* the A value lies in the range with compatible units
InRange(opt1, range) == Inside(valueMatch(opt1), rangeMatch(range))

NoRepeats(xs) == \A i, j \in 1..Len(xs) : xs[i] = xs[j] => i = j

\* C5: against a single range, the common options are exactly the discrete
\* A values inside the range (bounds included, units compatible), in A order.
C5_RangeContainment ==
    /\ Called("findCommonOptions")
    /\ \A i \in 1..Len(input[1]) : input[1][i] \in MagnitudeValues
    /\ NoRepeats(input[1])
    /\ Len(input[2]) = 1 /\ input[2][1] \in RangeValues
    => output = SelectSeq(input[1], LAMBDA opt1 : InRange(opt1, input[2][1]))

\* no two entries of a list of pairs share a left or a right member
OneToOne(pairs) ==
    \A i, j \in 1..Len(pairs) :
        i # j => pairs[i][1] # pairs[j][1] /\ pairs[i][2] # pairs[j][2]

\* the pairs <<A name, B name>> of the common entries of compareResults
ComparedPairs(common_specs) ==
    [i \in 1..Len(common_specs) |-> <<common_specs[i].chatgpt_name, common_specs[i].gemini_name>>]

\* the pairs <<A name, B index>> of the entries of findCommonSpecsLocally: the
\* B record of an entry is the one find returned for its name
LocalPairs(commonSpecs, stage2All) ==
    [i \in 1..Len(commonSpecs) |->
        <<commonSpecs[i].spec_name, findStage2Match(stage2All, commonSpecs[i].spec_name)>>]

\* C4: in every result of compareResults and of findCommonSpecsLocally each A
\* record is paired with at most one B record and each B record with at most
\* one A record.
C4_OneToOneBinding ==
    /\ Called("compareResults") => OneToOne(ComparedPairs(output.common_specs))
    /\ Called("findCommonSpecsLocally") =>
           OneToOne(LocalPairs(output, flattenStage2(input[2])))

\* the records of the end-to-end scenario
ScenarioStage1 == <<
    [spec_name |-> <<"G","r","a","d","e">>, options |-> <<<<"3","0","4">>, <<"3","1","6">>, <<"M","S">>>>, tier |-> <<"P","r","i","m","a","r","y">>],
    [spec_name |-> <<"S","t","a","n","d","a","r","d">>, options |-> <<<<"I","S"," ","2","0","6","2">>>>, tier |-> <<"S","e","c","o","n","d","a","r","y">>] >>

ScenarioStage2 == <<
    [name |-> <<"M","a","t","e","r","i","a","l"," ","G","r","a","d","e">>, options |-> <<<<"3","0","4">>, <<"3","1","6">>>>],
    [name |-> <<"S","t","a","n","d","a","r","d">>, options |-> <<<<"I","S"," ","2","0","6","2">>>>] >>

ScenarioCommon == <<
    [spec_name |-> <<"G","r","a","d","e">>, options |-> <<<<"3","0","4">>, <<"3","1","6">>>>, category |-> <<"P","r","i","m","a","r","y">>],
    [spec_name |-> <<"S","t","a","n","d","a","r","d">>, options |-> <<<<"I","S"," ","2","0","6","2">>>>, category |-> <<"S","e","c","o","n","d","a","r","y">>] >>

\* C6: the Stage 1 records Grade [304, 316, MS] and Standard [IS 2062] against
\* config Material Grade [304, 316] with key Standard [IS 2062] give exactly
\* two common entries under the Stage 1 names, Grade with [304, 316] and
\* Standard with [IS 2062], and MS is reported as unique to Stage 1.
C6_GradeStandardScenario ==
    /\ Called("findCommonSpecsLocally")
       /\ input = <<ScenarioStage1, AsStage2Bundle(ScenarioStage2, "keys")>>
       => output = ScenarioCommon
    /\ Called("findCommonSpecsWithGemini")
       /\ input[1] = ScenarioStage1 /\ input[2] = AsStage2Bundle(ScenarioStage2, "keys")
       /\ input[3].kind # "ok"
       => output.commonSpecs = ScenarioCommon
    /\ Called("compareResults") /\ input = <<ScenarioStage1, ScenarioStage2>>
       => /\ output.common_specs = <<
                 [spec_name |-> <<"G","r","a","d","e">>, chatgpt_name |-> <<"G","r","a","d","e">>,
                  gemini_name |-> <<"M","a","t","e","r","i","a","l"," ","G","r","a","d","e">>,
                  common_options |-> <<<<"3","0","4">>, <<"3","1","6">>>>,
                  chatgpt_unique_options |-> <<<<"M","S">>>>,
                  gemini_unique_options |-> <<>>],
                 [spec_name |-> <<"S","t","a","n","d","a","r","d">>, chatgpt_name |-> <<"S","t","a","n","d","a","r","d">>,
                  gemini_name |-> <<"S","t","a","n","d","a","r","d">>,
                  common_options |-> <<<<"I","S"," ","2","0","6","2">>>>,
                  chatgpt_unique_options |-> <<>>,
                  gemini_unique_options |-> <<>>] >>
          /\ output.chatgpt_unique_specs = <<>>
          /\ output.gemini_unique_specs = <<>>

C6_Witness ==
    /\ Called("findCommonSpecsLocally")
    /\ input = <<ScenarioStage1, AsStage2Bundle(ScenarioStage2, "keys")>>
    /\ Len(output) = 2

\* the options of the Stage 1 record of the list that carries the name
Stage1Options(stage1Specs, name) ==
    stage1Specs[CHOOSE i \in 1..Len(stage1Specs) : stage1Specs[i].spec_name = name].options

\* every option of the entry is one of the options of its Stage 1 record, or
\* the entry is the notice that nothing is common
Verbatim(options, stage1Options) ==
    \/ options = <<NoCommonOptions>>
    \/ \A k \in 1..Len(options) : contains(stage1Options, options[k])

VerbatimEntries(commonSpecs, stage1Specs) ==
    \A i \in 1..Len(commonSpecs) :
        Verbatim(commonSpecs[i].options, Stage1Options(stage1Specs, commonSpecs[i].spec_name))

\* C7: every option of a common entry (common_options of compareResults,
\* options of findCommonSpecsLocally, parseCommonSpecsFromText and
\* findCommonSpecsWithGemini) occurs verbatim among the options of the matched
\* Stage 1 record.
C7_VerbatimFromStage1 ==
    /\ Called("compareResults") =>
           \A i \in 1..Len(output.common_specs) :
               Verbatim(output.common_specs[i].common_options,
                        Stage1Options(input[1], output.common_specs[i].chatgpt_name))
    /\ Called("findCommonSpecsLocally") => VerbatimEntries(output, input[1])
    /\ Called("parseCommonSpecsFromText") => VerbatimEntries(output, input[2])
    /\ Called("findCommonSpecsWithGemini") => VerbatimEntries(output.commonSpecs, input[1])

ConfigOf(bundle) ==
    [name |-> get(get(bundle, <<"c","o","n","f","i","g">>), <<"n","a","m","e">>).v,
     options |-> [i \in 1..Len(get(get(bundle, <<"c","o","n","f","i","g">>), <<"o","p","t","i","o","n","s">>).v) |->
                     get(get(bundle, <<"c","o","n","f","i","g">>), <<"o","p","t","i","o","n","s">>).v[i].v]]

\* the text is a payload cut off after the last option string of the config
\* options array, the options being at most 8 and none of them the name
CutAfterLastOption ==
    /\ Called("extractJSONFromGemini")
    /\ input[1].kind = "truncated"
    /\ Len(ConfigOf(input[1].payload).options) <= 8
    /\ \A i \in 1..Len(ConfigOf(input[1].payload).options) :
           toLowerCase(ConfigOf(input[1].payload).options[i])
               # toLowerCase(ConfigOf(input[1].payload).name)

\* C9: a payload cut off after the last complete option string of the config
\* options array, all closing brackets and braces missing, is recovered to a
\* config with the original name and exactly the options present before the
\* cut.
C9_TruncatedRecovery ==
    CutAfterLastOption =>
        output # Null /\ ConfigOf(output) = ConfigOf(input[1].payload)

\* C10: for every well-formed payload {config: {name, options}, keys:
\* [{name, options}], buyers: [...]}, the recovery of its serialisation,
\* wrapped as the text fragment of a response, is deep-equal to
\* validateAndCleanParsedJSON of the payload.
C10_RoundTrip ==
    (Called("extractJSONFromGemini") /\ input[1].kind = "payload") =>
        output = validateAndCleanParsedJSON(input[1].payload)

\* the text the parts of a response add up to
RawText(response) == collectParts(firstCandidateParts(response).v, 1, <<>>).rawText

\* neither the cleaned text nor its repair parses and validates
BothParsesFail(cleaned) ==
    /\ tryParse(cleaned) = Threw
    /\ \/ fixIncompleteJSON(cleaned) = Null
       \/ tryParse(fixIncompleteJSON(cleaned).v) = Threw

\* the elements of an array, none for any other value
Items(value) == IF value.t = "array" THEN value.v ELSE <<>>

\* a bundle with a named config that has an option, or with a key
HasOptionOrKey(bundle) ==
    \/ /\ Truthy(get(get(bundle, <<"c","o","n","f","i","g">>), <<"n","a","m","e">>))
       /\ Items(get(get(bundle, <<"c","o","n","f","i","g">>), <<"o","p","t","i","o","n","s">>)) # <<>>
    \/ Items(get(bundle, <<"k","e","y","s">>)) # <<>>

\* what the fallback is to return for the manually assembled bundle
ManualResult(bundle) == IF HasOptionOrKey(bundle) THEN bundle ELSE Null

\* the response is text that neither parses nor is repaired
FellBackToManual ==
    /\ Called("extractJSONFromGemini")
    /\ input[1].kind \in {"text", "truncated", "payload"}
    /\ trim(RawText(input[1].response)) # <<>>
    /\ BothParsesFail(cleanText(RawText(input[1].response)))

\* C11: when both parse attempts fail, the pipeline returns the manually
\* assembled object only if it has a config with a non-empty name and at
\* least one option, or at least one key; otherwise it returns null.
C11_ManualFallbackResult ==
    FellBackToManual =>
        output = ManualResult(extractFromTextManually(cleanText(RawText(input[1].response))))

\* C12: validateAndCleanParsedJSON returns null for every parsed value that
\* is not an object and for every object that has neither a config nor a
\* keys field, JSON arrays and objects of another shape included.
C12_RejectsMalformed ==
    (/\ Called("validateAndCleanParsedJSON")
     /\ \/ input[1].t # "object"
        \/ get(input[1], <<"c","o","n","f","i","g">>) = Undefined /\ get(input[1], <<"k","e","y","s">>) = Undefined)
    => output = Null

\* the size bounds of a bundle: at most 8 config options, at most 3 keys,
\* each with 1 to 6 options and a name that is not the config name, at most
\* 2 buyers
WithinBounds(bundle) ==
    /\ Len(Items(get(get(bundle, <<"c","o","n","f","i","g">>), <<"o","p","t","i","o","n","s">>))) <= 8
    /\ Len(Items(get(bundle, <<"k","e","y","s">>))) <= 3
    /\ \A i \in 1..Len(Items(get(bundle, <<"k","e","y","s">>))) :
        /\ Len(Items(get(Items(get(bundle, <<"k","e","y","s">>))[i], <<"o","p","t","i","o","n","s">>))) \in 1..6
        /\ get(Items(get(bundle, <<"k","e","y","s">>))[i], <<"n","a","m","e">>) # get(get(bundle, <<"c","o","n","f","i","g">>), <<"n","a","m","e">>)
    /\ Len(Items(get(bundle, <<"b","u","y","e","r","s">>))) <= 2

\* C13 as stated: every non-null object the pipeline returns, whichever stage
\* produced it (the direct structured part included), is within the size
\* bounds.
C13_SizeBoundsOriginal ==
    (Called("extractJSONFromGemini") /\ output # Null) => WithinBounds(output)

\* C13: every non-null object the pipeline recovers from text (by the direct
\* parse, the repaired parse or the manual extraction) has at most 8 config
\* options, at most 3 keys, each with 1 to 6 options and a name different
\* from the config name, and at most 2 buyers.
C13_SizeBounds ==
    (Called("extractJSONFromGemini") /\ output # Null /\ ~input[1].structured)
    => WithinBounds(output)

\* a serialised bundle of four keys and three buyers has come back with
\* three keys and two buyers
C13_Witness ==
    /\ Called("extractJSONFromGemini")
    /\ input[1].kind = "payload"
    /\ Len(Items(get(input[1].payload, <<"k","e","y","s">>))) = 4
    /\ Len(Items(get(input[1].payload, <<"b","u","y","e","r","s">>))) = 3
    /\ Len(Items(get(output, <<"k","e","y","s">>))) = 3
    /\ Len(Items(get(output, <<"b","u","y","e","r","s">>))) = 2

\* a value that is a number and an optional unit and nothing else
PureMeasurement(opt) ==
    /\ Clean(opt) # <<>>
    /\ IsDigit(Clean(opt)[1])
    /\ skipSpace(Clean(opt), 1 + numberAt(Clean(opt), 1).len)
       + Len(unitAfterSpace(Clean(opt), 1 + numberAt(Clean(opt), 1).len, measurementUnits))
       = Len(Clean(opt)) + 1

\* a value in which no term of the material groups occurs
NoMaterialTerm(opt) ==
    \A g \in 1..Len(materialGroups) : \A k \in 1..Len(materialGroups[g]) :
        ~includes(Clean(opt), materialGroups[g][k])

\* the magnitude of a measurement value in millimetres, as a count of 1/Scale
Millimetres(opt) == getMeasurement(Clean(opt)).mm

\* C14: two pure measurement values (a number and an optional unit mm, cm,
\* m, inch, in, ft, ", '; outside the material groups) are similar exactly
\* when their magnitudes converted to millimetres differ by less than
\* 0.01 mm, for every magnitude including 0.
C14_MeasurementMatching ==
    (/\ Called("areOptionsStronglySimilar")
     /\ PureMeasurement(input[1]) /\ NoMaterialTerm(input[1])
     /\ PureMeasurement(input[2]) /\ NoMaterialTerm(input[2]))
    => output = (abs(Millimetres(input[1]) - Millimetres(input[2])) < Epsilon)

\* C15: normalizeSpecName is idempotent, normalize(normalize(x)) =
\* normalize(x) for every name x, and every canonical token of the synonym
\* table is a fixed point of the token mapping.
C15_Idempotent ==
    /\ Called("normalizeSpecName") => normalizeSpecName(output) = output
    /\ \A i \in 1..Len(standardizations) :
           standardizeWord(standardizations[i][2]) = standardizations[i][2]

\* the name with its stop-word tokens deleted
WithoutStopWords(name) ==
    join(SelectSeq(splitWords(replacePunctuation(trim(toLowerCase(name)))),
                   LAMBDA w : ~contains(fillerWords, w)),
         <<" ">>)

\* C16: a stop-word (sheet, plate, pipe, rod, bar, in, for, of, the)
\* contributes no token to the output: normalizing a name gives what
\* normalizing the name without its stop-word tokens gives.
C16_StopWordsRemoved ==
    Called("normalizeSpecName") =>
        output = normalizeSpecName(WithoutStopWords(input[1]))

\* a and b are equal case-insensitively, or similar under the option matcher
\* in one order or the other
Duplicates(a, b) ==
    \/ toLowerCase(trim(a)) = toLowerCase(trim(b))
    \/ areOptionsStronglySimilar(a, b)
    \/ areOptionsStronglySimilar(b, a)

NoDuplicates(options) ==
    \A i \in 1..Len(options) : \A j \in 1..Len(options) :
        i < j => ~Duplicates(options[i], options[j])

\* xs can be had from ys by leaving entries out
RECURSIVE IsSubsequence(_, _)
IsSubsequence(xs, ys) ==
    IF xs = <<>> THEN TRUE
    ELSE IF ys = <<>> THEN FALSE
    ELSE IF Head(xs) = Head(ys) THEN IsSubsequence(Tail(xs), Tail(ys))
    ELSE IsSubsequence(xs, Tail(ys))

\* the entry is one that curation may keep: not blank, not a placeholder
Curable(opt) == trim(opt) # <<>> /\ ~isInvalid(toLowerCase(trim(opt)))

\* the entries that are the first of their kind: curable, and no duplicate
\* of a curable entry before them
FirstSeen(options) ==
    {i \in 1..Len(options) :
        /\ Curable(options[i])
        /\ \A j \in 1..(i - 1) : Curable(options[j]) => ~Duplicates(options[i], options[j])}

\* C17: the output of cleanBuyerISQOptions, and so the options of every
\* buyer ISQ that generateBuyerISQsWithGemini returns, holds no two entries
\* that are equal case-insensitively or similar under the option matcher; it
\* keeps the first-seen entries, in the order of the input.
C17_PostCuration ==
    /\ Called("cleanBuyerISQOptions") =>
        /\ NoDuplicates(output)
        /\ IsSubsequence(output, trimAll(input[1]))
        /\ \A i \in FirstSeen(input[1]) : contains(output, trim(input[1][i]))
    /\ Called("generateBuyerISQsWithGemini") =>
        \A k \in 1..Len(output) : NoDuplicates(output[k].options)

\* a list with a value and, later, an alias spelling of it has been curated
\* to a shorter list that begins with the value
C17_Witness ==
    /\ Called("cleanBuyerISQOptions")
    /\ input[1] = <<<<"3","0","4">>, <<"S","S"," ","3","0","4">>, <<"3","1","6">>>>
    /\ output = <<<<"3","0","4">>, <<"3","1","6">>>>

\* the buyer ISQ of a common spec has been filled with options of the model
\* and curated
C17_WitnessGenerated ==
    /\ Called("generateBuyerISQsWithGemini")
    /\ output # <<>>
    /\ Len(output[1].options) > 0
    /\ Len(output[1].options) < Len(input[1][1].options)

\* the lower-cased, trimmed and sorted options of a record
SortedOptions(isq) ==
    sort([i \in 1..Len(isq.options) |-> trim(toLowerCase(isq.options[i]))])

\* the records that no earlier record has the sorted options of
FirstOfOptions(isqs) ==
    {i \in 1..Len(isqs) :
        \A j \in 1..(i - 1) : SortedOptions(isqs[j]) # SortedOptions(isqs[i])}

\* the entries of xs at the indices in S, in their order
RECURSIVE IndexedBy(_, _, _)
IndexedBy(xs, S, i) ==
    IF i > Len(xs) THEN <<>>
    ELSE (IF i \in S THEN <<xs[i]>> ELSE <<>>) \o IndexedBy(xs, S, i + 1)

\* C18: removeDuplicateISQs removes a record iff an earlier record has the
\* same trimmed, lower-cased, sorted option list, whatever the names; the
\* first record of each group is kept and the order of the kept records is
\* preserved.
C18_DedupSpecs ==
    Called("removeDuplicateISQs") =>
        output = IndexedBy(input[1], FirstOfOptions(input[1]), 1)

\* the options of an entry are the notice alone, or real options only
SentinelOrReal(options) ==
    /\ options # <<>>
    /\ contains(options, NoCommonOptions) => options = <<NoCommonOptions>>

\* the Stage 1 record that carries the name
Stage1Named(stage1Specs, name) ==
    stage1Specs[CHOOSE i \in 1..Len(stage1Specs) : stage1Specs[i].spec_name = name]

\* the Stage 1 record and the Stage 2 record it goes with have no option in
\* common
NothingInCommon(stage1Spec, stage2ISQs) ==
    findCommonOptions(stage1Spec.options,
        flattenStage2(stage2ISQs)[findStage2Match(flattenStage2(stage2ISQs),
                                                  stage1Spec.spec_name)].options) = <<>>

\* the entries follow the rule of the notice, and the entries of the local
\* matching are the notice alone when nothing is common
LocalSentinel(entries, stage1Specs, stage2ISQs) ==
    \A k \in 1..Len(entries) :
        /\ SentinelOrReal(entries[k].options)
        /\ NothingInCommon(Stage1Named(stage1Specs, entries[k].spec_name), stage2ISQs)
               => entries[k].options = <<NoCommonOptions>>

\* C19: every common entry returned by parseCommonSpecsFromText, by
\* findCommonSpecsLocally and by findCommonSpecsWithGemini has a non-empty
\* options list; the list is exactly the notice "No common options
\* available" when the matched specification has no common option, and the
\* notice never stands next to real options.
C19_Sentinel ==
    /\ Called("parseCommonSpecsFromText") =>
        \A k \in 1..Len(output) : SentinelOrReal(output[k].options)
    /\ Called("findCommonSpecsLocally") => LocalSentinel(output, input[1], input[2])
    /\ Called("findCommonSpecsWithGemini") =>
        IF input[3].kind = "ok" /\ parseCommonSpecsFromText(extractRawText(input[3].data), input[1]) # <<>>
        THEN \A k \in 1..Len(output.commonSpecs) : SentinelOrReal(output.commonSpecs[k].options)
        ELSE LocalSentinel(output.commonSpecs, input[1], input[2])

\* the first fields of the rows of the table: the lines that are not blank,
\* not a header and have a pipe
FirstFields(text) ==
    LET rows == SelectSeq(split(text, "\n"), LAMBDA line :
                    trim(line) # <<>> /\ ~isHeaderLine(line) /\ includes(line, <<"|">>))
    IN [i \in 1..Len(rows) |-> trim(split(rows[i], "|")[1])]

\* the names of the Stage 1 records that equal the field or are similar to it
Anchors(stage1Specs, field) ==
    {stage1Specs[i].spec_name : i \in {j \in 1..Len(stage1Specs) :
        \/ stage1Specs[j].spec_name = field
        \/ isSemanticallySimilar(stage1Specs[j].spec_name, field)}}

\* names are, row by row, an anchor of each field that has one; the fields
\* with none are passed over
RECURSIVE Anchored(_, _, _)
Anchored(names, fields, stage1Specs) ==
    IF fields = <<>> THEN names = <<>>
    ELSE IF Anchors(stage1Specs, Head(fields)) = {}
         THEN Anchored(names, Tail(fields), stage1Specs)
         ELSE /\ names # <<>>
              /\ Head(names) \in Anchors(stage1Specs, Head(fields))
              /\ Anchored(Tail(names), Tail(fields), stage1Specs)

\* C20: for every model text and every Stage 1 list, each entry returned by
\* parseCommonSpecsFromText carries the exact name of a Stage 1 record that
\* equals the first field of its row or is similar to it; a row whose first
\* field goes with no Stage 1 record gives no entry, and the call returns
\* its list all the same.
C20_ReAnchoring ==
    Called("parseCommonSpecsFromText") =>
        /\ Len(output) <= Len(FirstFields(input[1]))
        /\ Anchored([k \in 1..Len(output) |-> output[k].spec_name],
                    FirstFields(input[1]), input[2])

\* the row "Material Grade" has been returned under the Stage 1 name Grade,
\* and the row "Finish", which goes with no Stage 1 record, has given nothing
C20_Witness ==
    /\ Called("parseCommonSpecsFromText")
    /\ FirstFields(input[1]) = <<<<"M","a","t","e","r","i","a","l"," ","G","r","a","d","e">>, <<"F","i","n","i","s","h">>>>
    /\ Len(output) = 1
    /\ output[1].spec_name = <<"G","r","a","d","e">>

\* the call compared the two names, in one order or the other
Compared(a, b) ==
    /\ Called("isSemanticallySimilar")
    /\ input \in {<<a, b>>, <<b, a>>}

\* C22: Grade, Standard and Quality are three different specifications:
\* isSemanticallySimilar returns false for each of the pairs (Grade,
\* Standard), (Grade, Quality) and (Standard, Quality).
C22_ThreeSpecifications ==
    (\/ Compared(<<"G","r","a","d","e">>, <<"S","t","a","n","d","a","r","d">>)
     \/ Compared(<<"G","r","a","d","e">>, <<"Q","u","a","l","i","t","y">>)
     \/ Compared(<<"S","t","a","n","d","a","r","d">>, <<"Q","u","a","l","i","t","y">>))
    => output = FALSE

\* the names of the records, in their order
NamesOf(isqs) == [k \in 1..Len(isqs) |-> isqs[k].name]

\* C23: generateBuyerISQsWithGemini returns at most 2 ISQs; their names are
\* names of the first two common specifications, in the same order; each has
\* at most 8 options; an empty list of common specifications gives an empty
\* result and no call of the model.
C23_SizeBounded ==
    Called("generateBuyerISQsWithGemini") =>
        /\ Len(output) <= 2
        /\ IsSubsequence(NamesOf(output),
                         [k \in 1..Len(slice(input[1], 2)) |-> input[1][k].spec_name])
        /\ \A k \in 1..Len(output) : Len(output[k].options) <= 8
        /\ input[1] = <<>> =>
               output = <<>> /\ enhanceCalls(input[1], input[2], input[3]) = {}

\* three common specifications, the first with nine options, have given two
\* ISQs, the first with eight options
C23_Witness ==
    /\ Called("generateBuyerISQsWithGemini")
    /\ Len(input[1]) = 3
    /\ Len(input[1][1].options) = 9
    /\ Len(output) = 2
    /\ Len(output[1].options) = 8

\* the records of a side as compareResults reads them
ComparedSpecs(records) == extractAllSpecsWithOptions(AsStage1Output(records))

\* the common entries that carry the A record (the B record) of the name
CommonOfA(common, name) == {k \in 1..Len(common) : common[k].chatgpt_name = name}
CommonOfB(common, name) == {k \in 1..Len(common) : common[k].gemini_name = name}

\* the records of specs with no common entry under sel, in their order
Unpaired(specs, common, sel) ==
    SelectSeq(specs, LAMBDA s : \A k \in 1..Len(common) : common[k][sel] # s.spec_name)

\* C27: in compareResults(A, B) every A record is in a common entry or in
\* chatgpt_unique_specs and never in both, every B record is in exactly one
\* common entry or else in gemini_unique_specs, no record is lost, and the
\* unique lists keep the order of the input.
C27_RecordPartition ==
    Called("compareResults") =>
        /\ \A i \in 1..Len(ComparedSpecs(input[1])) :
               (CommonOfA(output.common_specs, ComparedSpecs(input[1])[i].spec_name) # {})
               # contains(output.chatgpt_unique_specs, ComparedSpecs(input[1])[i])
        /\ \A j \in 1..Len(ComparedSpecs(input[2])) :
               IF contains(output.gemini_unique_specs, ComparedSpecs(input[2])[j])
               THEN CommonOfB(output.common_specs, ComparedSpecs(input[2])[j].spec_name) = {}
               ELSE Cardinality(CommonOfB(output.common_specs,
                                          ComparedSpecs(input[2])[j].spec_name)) = 1
        /\ output.chatgpt_unique_specs
               = Unpaired(ComparedSpecs(input[1]), output.common_specs, "chatgpt_name")
        /\ output.gemini_unique_specs
               = Unpaired(ComparedSpecs(input[2]), output.common_specs, "gemini_name")

\* two A records and two B records have given one common entry, one record
\* unique to A and one unique to B
C27_Witness ==
    /\ Called("compareResults")
    /\ Len(input[1]) = 2 /\ Len(input[2]) = 2
    /\ Len(output.common_specs) = 1
    /\ Len(output.chatgpt_unique_specs) = 1
    /\ Len(output.gemini_unique_specs) = 1

\* how often the value stands in the list
Occurrences(xs, x) == Cardinality({i \in 1..Len(xs) : xs[i] = x})

\* C28: in findCommonOptions each B value is consumed by at most one match,
\* and an A value stands in the result more than once only if it stands in
\* listA more than once: a listA without repeated values gives a result
\* without repeated values, even when several B values are similar to the
\* same A value.
C28_Multiplicity ==
    Called("findCommonOptions") =>
        /\ Len(directMatches(input[1], input[2], 0,
                             [common |-> <<>>, usedIndices |-> {}]).common) <= Len(input[2])
        /\ \A k \in 1..Len(output) :
               Occurrences(output, output[k]) > 1 => Occurrences(input[1], output[k]) > 1

\* C29: for every common entry of compareResults, each option of the A-side
\* specification is in exactly one of common_options and
\* chatgpt_unique_options: none is in both, none is in neither, also when B
\* holds a numeric range or several A options are similar to one B option.
C29_OptionPartition ==
    Called("compareResults") =>
        \A k \in 1..Len(output.common_specs) :
            \A o \in {Stage1Options(input[1], output.common_specs[k].chatgpt_name)[i] :
                        i \in 1..Len(Stage1Options(input[1],
                                                   output.common_specs[k].chatgpt_name))} :
                contains(output.common_specs[k].common_options, o)
                # contains(output.common_specs[k].chatgpt_unique_options, o)

\* the outcomes after which fetchWithRetry tries again
Retryable(outcome) == outcome \in {"429", "502", "503", "abort"}

\* the requests sent so far and the way the call ended agree with the bounded
\* retry: a request follows another only after an overload status or an abort
\* and while retries are left, an ok response ends the call at once, and the
\* call ends with the ok response or with an error other than "Unreachable"
RetryBounded ==
    fn = "fetchWithRetry" =>
        /\ locals.sent <= input[1] + 1
        /\ Len(locals.ended) \in {locals.sent, locals.sent - 1}
        /\ \A k \in 1..Len(locals.ended) :
               /\ k < locals.sent => Retryable(locals.ended[k]) /\ k - 1 < input[1]
               /\ locals.ended[k] = "ok" => k = Len(locals.ended) /\ pc = "done"
               /\ ~Retryable(locals.ended[k]) => k = locals.sent /\ pc = "done"
        /\ pc = "done" =>
               /\ locals.ended # <<>>
               /\ Len(locals.ended) = locals.sent
               /\ output # [threw |-> "Unreachable"]
               /\ IF locals.ended[Len(locals.ended)] = "ok"
                  THEN output = [response |-> "ok"]
                  ELSE DOMAIN output = {"threw"}
               /\ Retryable(locals.ended[Len(locals.ended)])
                      => Len(locals.ended) = input[1] + 1

validKeys(a) ==
    flatten([i \in 1..3 |->
                IF a.keys[i].valid
                THEN << [name |-> a.keys[i].name, options |-> a.keys[i].kept] >>
                ELSE <<>>])

ParsedAsClaimed(a, result) ==
    /\ result # Threw
    /\ (result = Null) <=> (~a.config.valid /\ validKeys(a) = <<>>)
    /\ result # Null =>
        /\ Len(result.config.options) <= 8
        /\ Len(result.keys) <= 3
        /\ \A i \in 1..Len(result.keys) : Len(result.keys[i].options) <= 6
        /\ result.keys = validKeys(a)
        /\ a.config.valid => result.config = [name |-> a.config.name, options |-> a.config.kept]
        /\ ~a.config.valid => result.config.name = <<>>

\* C21: parseISQFromText returns null exactly when the text yields neither a
\* valid config (a relevant name and at least one relevant option) nor a valid
\* key; otherwise it returns the partial result as it is, with at most 8
\* config options, at most 3 keys in slot order and at most 6 options per key,
\* and it never throws
C21_ParserResult ==
    Called("parseISQFromText") =>
        \A a \in Answers : answerText(a) = input[1] => ParsedAsClaimed(a, output)

\* an answer without a valid config whose three keys stand in the opposite
\* order and whose second key has seven options
C21_Witness ==
    /\ Called("parseISQFromText")
    /\ occursAt(input[1], <<"=","=","=","k","e","y"," ","s","p","e","c","i","f","i","c","a","t","i","o","n"," ","3","=","=","=">>, 1)
    /\ includes(input[1], <<"n","a","m","e",":"," ","P","r","i","c","e"," ","R","a","n","g","e">>)
    /\ output # Null
    /\ output.config.name = <<>>
    /\ Len(output.keys) = 3
    /\ output.keys[1].name = <<"G","r","a","d","e">>
    /\ output.keys[2].name = <<"L","e","n","g","t","h">>
    /\ Len(output.keys[2].options) = 6
    /\ output.keys[3].name = <<"F","i","n","i","s","h">>

\* C25: a stage whose API key is absent throws to its caller and returns no
\* fallback result; stated for Stage 3, the finding of the common
\* specifications with STAGE3_API_KEY empty
C25_ThrowsWithoutKey ==
    (Called("findCommonSpecsWithGemini") /\ input[3].kind = "nokey") => output = Threw

\* the places of the URLs whose fetch has ended
SettledPlaces == {locals.settled[k].index : k \in 1..Len(locals.settled)}

\* what the fetch of the URL at place i ended with
FetchedFor(i) ==
    locals.settled[CHOOSE k \in 1..Len(locals.settled) : locals.settled[k].index = i].content

C26_PartialResult ==
    (Called("extractISQWithGemini") /\ locals.reply.kind = "ok") =>
        \A a \in Answers :
            (/\ locals.reply.data = TextResponse(<< answerText(a) >>)
             /\ ~a.config.valid
             /\ validKeys(a) # <<>>)
            => (output # NoISQs /\ output.keys = validKeys(a))

Next ==
    \/ Call_normalizeSpecName
    \/ Call_isSemanticallySimilar
    \/ Call_areOptionsStronglySimilar
    \/ Call_findCommonOptions
    \/ Call_compareResults
    \/ Call_findCommonSpecsLocally
    \/ Call_parseCommonSpecsFromText
    \/ Call_findCommonSpecsWithGemini
    \/ Call_extractJSONFromGemini
    \/ Call_validateAndCleanParsedJSON
    \/ Call_cleanBuyerISQOptions
    \/ Call_removeDuplicateISQs
    \/ Call_generateBuyerISQsWithGemini
    \/ Call_fetchWithRetry
    \/ FetchAttempt
    \/ FetchEnds
    \/ SleepEnds
    \/ Call_parseISQFromText
    \/ Call_extractISQWithGemini
    \/ PagesStart
    \/ PageFetched
    \/ AllFetched
    \/ ModelAnswers
    \/ Return

Spec == Init /\ [][Next]_vars
====
